---- MODULE Spec2Model ----
(***************************************************************************)
(* SageBrowser: the form automation engine of src/browser/browser.py       *)
(* (class WebViewAutomator) as a state machine.                            *)
(*                                                                         *)
(* Python builds one JavaScript source text per operation (an f-string     *)
(* with the caller's strings interpolated raw), hands it to                *)
(* QWebEnginePage.runJavaScript together with a callback, and returns.     *)
(* The page runs the script against the live DOM; the value of the script  *)
(* (or null) is delivered later to the callback on Python's event loop.    *)
(*                                                                         *)
(* Strings are sequences of one-character strings, so that includes(),     *)
(* toLowerCase(), trim() and the quoting of a JavaScript string literal    *)
(* are computed and not assumed.                                           *)
(***************************************************************************)
EXTENDS Integers, Sequences, FiniteSets, TLC

VARIABLES
    dom,        \* the page's elements in document order (element 1 is <body>)
    pc,         \* Python's position: "idle", "fill_form", "fill_by_xpath",
                \* or "aborted" once the process has ended
    todo,       \* the entries the running fill loop has still to submit
    queue,      \* evaluations handed to runJavaScript, not yet run by the page
    ready,      \* evaluations the page has run, whose callback has not fired
    submitted,  \* history: every evaluation in the order of its runJavaScript call
    trace,      \* history: every interaction a script had with an element
    handled,    \* history: every callback in the order Python handled it
    app,        \* what the handlers keep: the browser's field lists, the LLM's flag,
                \* the LLM threads started, the commands the browser was given
    calls       \* history: the operations the caller has started, in order

vars == <<dom, pc, todo, queue, ready, submitted, trace, handled, app, calls>>

----------------------------------------------------------------------------
(* Strings                                                                 *)

Upper == <<"A","B","C","D","E","F","G","H","I","J","K","L","M",
           "N","O","P","Q","R","S","T","U","V","W","X","Y","Z">>
LowerAlpha == <<"a","b","c","d","e","f","g","h","i","j","k","l","m",
                "n","o","p","q","r","s","t","u","v","w","x","y","z">>
Digits == {"0","1","2","3","4","5","6","7","8","9"}

LowerChar(c) ==
    IF \E i \in DOMAIN Upper : Upper[i] = c
    THEN LowerAlpha[CHOOSE i \in DOMAIN Upper : Upper[i] = c]
    ELSE c

\* String.prototype.toLowerCase
toLowerCase(s) == [i \in 1..Len(s) |-> LowerChar(s[i])]

\* String.prototype.includes
includes(s, t) ==
    \E i \in 0..(Len(s) - Len(t)) : SubSeq(s, i + 1, i + Len(t)) = t

RECURSIVE trimStart(_)
trimStart(s) ==
    IF s # <<>> /\ Head(s) = " " THEN trimStart(Tail(s)) ELSE s

RECURSIVE trimEnd(_)
trimEnd(s) ==
    IF s # <<>> /\ s[Len(s)] = " " THEN trimEnd(SubSeq(s, 1, Len(s) - 1)) ELSE s

\* String.prototype.trim
trim(s) == trimEnd(trimStart(s))

IsLetter(c) ==
    \E i \in DOMAIN Upper : Upper[i] = c \/ LowerAlpha[i] = c

\* an identifier: letters only, at least one
IsIdent(s) == s # <<>> /\ \A i \in 1..Len(s) : IsLetter(s[i])

\* JavaScript's undefined and null, and Python's None
undefined == <<"undefined">>
null == <<"null">>

\* the words of the pages and of the callers
sEmail == <<"E","m","a","i","l">>
sEm == <<"e","m">>
sName == <<"N","a","m","e">>
sUSA == <<"U","S","A">>
sUs == <<"u","s">>
sCanada == <<"C","a","n">>
sCa == <<"c","a">>
sCountry == <<"c","o","u","n","t","r","y">>
sHashCountry == <<"#">> \o sCountry
sColor == <<"c","o","l","o","r">>
sRed == <<"r","e","d">>
sBlue == <<"b","l","u","e">>
sGreen == <<"g","r","e","e","n">>
sAgree == <<"a","g","r","e","e">>
sHashAgree == <<"#">> \o sAgree
sTrue == <<"t","r","u","e">>
sFalse == <<"f","a","l","s","e">>
sYes == <<"y","e","s">>
sNo == <<"n","o">>
sOn == <<"o","n">>
sOff == <<"o","f","f">>
sChecked == <<"c","h","e","c","k","e","d">>
sUnchecked == <<"u","n">> \o sChecked
sText == <<"t","e","x","t">>
sCheckbox == <<"c","h","e","c","k","b","o","x">>
sRadio == <<"r","a","d","i","o">>
sHidden == <<"h","i","d","d","e","n">>
sSelectOne == <<"s","e","l","e","c","t","-","o","n","e">>
sTextarea == <<"t","e","x","t","a","r","e","a">>
sHeading == <<"h","e","a","d","i","n","g">>
sGroup == <<"g","r","o","u","p">>
sRadiogroup == sRadio \o sGroup
sForm == <<"f","o","r","m">>
sOne == <<"1">>
sQuote == <<"O","'","B">>
sBackslash == <<"a","\\">>

----------------------------------------------------------------------------
(* Script building: the f-strings interpolate the caller's string raw.     *)
(* A JavaScript source text compiles only if every interpolation site is  *)
(* well formed.  The words above use letters, digits, space, #, the single *)
(* quote and the backslash: after an early end of a literal the rest of    *)
(* the word cannot continue the expression, and a backslash before the     *)
(* closing quote leaves the literal open to the end of the line.           *)

\* the raw text r between '...' is one complete string literal
RECURSIVE sqClosed(_)
sqClosed(r) ==
    IF r = <<>> THEN TRUE
    ELSE IF Head(r) = "\\" THEN Len(r) >= 2 /\ sqClosed(SubSeq(r, 3, Len(r)))
    ELSE IF Head(r) = "'" THEN FALSE
    ELSE sqClosed(Tail(r))

\* the back quote that delimits a template literal
BackQuote == "BQ"

\* the raw text r inside a template literal leaves the literal complete
RECURSIVE tplClosed(_)
tplClosed(r) ==
    IF r = <<>> THEN TRUE
    ELSE IF Head(r) = "\\" THEN Len(r) >= 2 /\ tplClosed(SubSeq(r, 3, Len(r)))
    ELSE IF Head(r) = BackQuote THEN FALSE
    ELSE tplClosed(Tail(r))

\* the raw text r inside ${...} is an expression: an identifier or a number
exprOk(r) ==
    \/ IsIdent(r)
    \/ r # <<>> /\ \A i \in 1..Len(r) : r[i] \in Digits

\* the string a closed literal denotes: \c stands for c
RECURSIVE jsValue(_)
jsValue(r) ==
    IF r = <<>> THEN <<>>
    ELSE IF Head(r) = "\\" /\ Len(r) >= 2
         THEN <<r[2]>> \o jsValue(SubSeq(r, 3, Len(r)))
    ELSE <<Head(r)>> \o jsValue(Tail(r))

\* Python's str() of an argument: None is formatted as the word None
sNone == <<"N","o","n","e">>
pyStr(x) == IF x = null THEN sNone ELSE x

----------------------------------------------------------------------------
(* The DOM                                                                 *)

NoRect == [top |-> 0, bottom |-> 0, left |-> 0, right |-> 0]
Box(t, b) == [top |-> t, bottom |-> b, left |-> 0, right |-> 10]

\* an element with every attribute absent, laid out and visible
El(tag, parent) ==
    [tag |-> tag, parent |-> parent, text |-> <<>>, id |-> <<>>, name |-> <<>>,
     htmlFor |-> <<>>, type |-> undefined, role |-> <<>>, cls |-> {},
     placeholder |-> <<>>, ariaLabel |-> <<>>, title |-> <<>>, alt |-> <<>>,
     testid |-> <<>>, contenteditable |-> FALSE, required |-> FALSE,
     value |-> undefined, checked |-> FALSE, options |-> <<>>,
     selectedIndex |-> -1,
     display |-> "block", visibility |-> "visible", opacity |-> "1",
     offsetParent |-> TRUE, rect |-> Box(0, 10), bold |-> FALSE,
     extraChildren |-> 0]

Body == [El("BODY", 0) EXCEPT !.offsetParent = FALSE]
Text(tag, parent, t) == [El(tag, parent) EXCEPT !.text = t]
Input(parent, type) == [El("INPUT", parent) EXCEPT !.type = type, !.value = <<>>]
\* an element that is not rendered has no box and no offsetParent
NotRendered(el) ==
    [el EXCEPT !.display = "none", !.rect = NoRect, !.offsetParent = FALSE]

Opt(v, t) == [value |-> v, text |-> t]
Select(parent, opts) ==
    [El("SELECT", parent) EXCEPT !.type = sSelectOne, !.options = opts,
                                 !.selectedIndex = 0, !.value = opts[1].value]

Nodes(d) == 1..Len(d)
Idx(d) == [i \in 1..Len(d) |-> i]

\* n lies strictly below root; root 0 is the document
RECURSIVE IsDescendant(_, _, _)
IsDescendant(d, n, root) ==
    IF root = 0 THEN TRUE
    ELSE IF n = 0 THEN FALSE
    ELSE d[n].parent = root \/ IsDescendant(d, d[n].parent, root)

InSubtree(d, n, root) == n = root \/ IsDescendant(d, n, root)

\* the text nodes of one element: its own text, and for a select the texts
\* of its options
RECURSIVE optionTexts(_)
optionTexts(opts) ==
    IF opts = <<>> THEN <<>> ELSE Head(opts).text \o optionTexts(Tail(opts))

ownText(d, i) == d[i].text \o optionTexts(d[i].options)

\* Element.textContent: the text of the element and of everything below it
RECURSIVE textFrom(_, _, _)
textFrom(d, root, i) ==
    IF i > Len(d) THEN <<>>
    ELSE (IF InSubtree(d, i, root) THEN ownText(d, i) ELSE <<>>) \o textFrom(d, root, i + 1)

textContent(d, n) == textFrom(d, n, n)

\* querySelectorAll under root for the elements that satisfy P, document order
qsa(d, root, P(_)) ==
    SelectSeq(Idx(d), LAMBDA i : (root = 0 \/ IsDescendant(d, i, root)) /\ P(i))

\* querySelector: the first of them, 0 for null
first(s) == IF s = <<>> THEN 0 ELSE s[1]

\* Element.closest: the nearest of the element and its ancestors that is in S
RECURSIVE closest(_, _, _)
closest(d, n, S) ==
    IF n = 0 THEN 0
    ELSE IF n \in S THEN n
    ELSE closest(d, d[n].parent, S)

getElementById(d, s) ==
    IF s = <<>> THEN 0 ELSE first(qsa(d, 0, LAMBDA i : d[i].id = s))

children(d, n) == {i \in Nodes(d) : d[i].parent = n}

\* a selector string as document.querySelector reads it: "#x" is the element
\* with id x, a tag name is the first element of that tag; a string that is
\* no selector raises (the scripts catch it), written -1
TagNames ==
    << <<"FORM", sForm>>, <<"DIV", <<"d","i","v">>>>, <<"INPUT", <<"i","n","p","u","t">>>>,
       <<"SELECT", <<"s","e","l","e","c","t">>>>, <<"TEXTAREA", sTextarea>>,
       <<"LABEL", <<"l","a","b","e","l">>>>, <<"BUTTON", <<"b","u","t","t","o","n">>>>,
       <<"SPAN", <<"s","p","a","n">>>>, <<"P", <<"p">>>>, <<"FIELDSET", <<"f","i","e","l","d","s","e","t">>>>,
       <<"LEGEND", <<"l","e","g","e","n","d">>>>, <<"H1", <<"h","1">>>>, <<"H2", <<"h","2">>>>,
       <<"H3", <<"h","3">>>>, <<"H4", <<"h","4">>>>, <<"H5", <<"h","5">>>>, <<"H6", <<"h","6">>>>,
       <<"A", <<"a">>>>, <<"BODY", <<"b","o","d","y">>>>, <<"HTML", <<"h","t","m","l">>>> >>

\* the tag a name stands for in a selector or a path, "NONE" for an unknown one
TagOf(s) ==
    IF \E k \in DOMAIN TagNames : TagNames[k][2] = toLowerCase(s)
    THEN TagNames[CHOOSE k \in DOMAIN TagNames : TagNames[k][2] = toLowerCase(s)][1]
    ELSE "NONE"

\* element.tagName.toLowerCase()
tagName(tag) == TagNames[CHOOSE k \in DOMAIN TagNames : TagNames[k][1] = tag][2]

querySelector(d, s) ==
    IF s # <<>> /\ Head(s) = "#" /\ IsIdent(Tail(s))
    THEN getElementById(d, Tail(s))
    ELSE IF IsIdent(s)
    THEN first(qsa(d, 0, LAMBDA i : d[i].tag = TagOf(s)))
    ELSE -1

\* [name="s"], as the scripts build it from a string s
byName(d, s) == qsa(d, 0, LAMBDA i : d[i].name = s /\ s # <<>>)

\* what a script does to an element, in the order it does it
Act(n, kind) == [node |-> n, kind |-> kind]

\* the default action of click(): a checkbox toggles, a radio becomes the
\* checked one of its group (the radios of the same name)
click(d, n) ==
    IF d[n].tag = "INPUT" /\ d[n].type = sCheckbox
    THEN [d EXCEPT ![n].checked = ~d[n].checked]
    ELSE IF d[n].tag = "INPUT" /\ d[n].type = sRadio
    THEN [i \in 1..Len(d) |->
            IF i = n THEN [d[i] EXCEPT !.checked = TRUE]
            ELSE IF d[i].tag = "INPUT" /\ d[i].type = sRadio
                    /\ d[i].name = d[n].name /\ d[n].name # <<>>
                 THEN [d[i] EXCEPT !.checked = FALSE]
                 ELSE d[i]]
    ELSE d

\* assigning checked = true to a radio unchecks the rest of its group
setChecked(d, n, b) ==
    IF b /\ d[n].tag = "INPUT" /\ d[n].type = sRadio
    THEN click(d, n)
    ELSE [d EXCEPT ![n].checked = b]

----------------------------------------------------------------------------
(* What a script returns                                                   *)

\* the fields a result object may carry, absent
NoFields ==
    [kind |-> "object", success |-> FALSE, found |-> FALSE, method |-> "",
     message |-> <<>>, node |-> 0, checked |-> FALSE, selectedText |-> <<>>,
     selectedValue |-> <<>>, value |-> <<>>, score |-> 0, field |-> <<>>,
     xpath |-> <<>>, fields |-> <<>>]

\* the payload of a callback whose script gave no value
Null == [NoFields EXCEPT !.kind = "null"]

Ok(method, n) == [NoFields EXCEPT !.success = TRUE, !.method = method, !.node = n]
Fail(msg) == [NoFields EXCEPT !.message = msg]

\* a script's outcome: its value, the DOM it leaves, what it did to elements
Out(res, d, acts) == [res |-> res, dom |-> d, acts |-> acts]

\* the result of the catch (e) that wraps a script
Caught(prefix, msg, d, acts) == Out(Fail(<<prefix>> \o msg), d, acts)

----------------------------------------------------------------------------
(* check_checkbox: src/browser/browser.py 2031-2179                        *)

isCheckboxType(d, n) == n > 0 /\ d[n].type = sCheckbox

\* Method 4: the first label whose text contains the selector and that leads
\* to a checkbox, by its for attribute or by the first checkbox inside it
ifCheckbox(d, cb) == IF isCheckboxType(d, cb) THEN cb ELSE 0

labelCheckbox(d, sel, l) ==
    IF d[l].htmlFor # <<>>
    THEN ifCheckbox(d, getElementById(d, d[l].htmlFor))
    ELSE first(qsa(d, l, LAMBDA i : d[i].tag = "INPUT" /\ d[i].type = sCheckbox))

Found(n, method) == [node |-> n, method |-> method]

\* the loop over the labels stops at the first of these
checkboxLabels(d, sel) ==
    qsa(d, 0, LAMBDA l :
        /\ d[l].tag = "LABEL"
        /\ includes(toLowerCase(trim(textContent(d, l))), toLowerCase(sel))
        /\ labelCheckbox(d, sel, l) > 0)

firstLabelled(d, sel, labels) ==
    IF labels = <<>> THEN Found(0, "")
    ELSE Found(labelCheckbox(d, sel, labels[1]),
               IF d[labels[1]].htmlFor # <<>> THEN "label_text" ELSE "label_contains")

checkboxByLabel(d, sel) == firstLabelled(d, sel, checkboxLabels(d, sel))

\* Method 3, then Method 4: elements are the elements of that name
checkboxByName(d, sel, elements) ==
    IF elements # <<>> THEN Found(elements[1], "name") ELSE checkboxByLabel(d, sel)

\* Method 2, reached when Method 1 gave no checkbox
checkboxById(d, sel, checkbox) ==
    IF isCheckboxType(d, checkbox) THEN Found(checkbox, "id")
    ELSE checkboxByName(d, sel,
             SelectSeq(byName(d, sel), LAMBDA i : d[i].type = sCheckbox))

\* Method 1: querySelector, whose exception is swallowed
checkboxBySelector(d, sel, checkbox) ==
    IF isCheckboxType(d, checkbox) THEN Found(checkbox, "css_selector")
    ELSE checkboxById(d, sel, getElementById(d, sel))

\* Methods 1-4, each tried only while no checkbox has been found
findCheckbox(d, sel) == checkboxBySelector(d, sel, querySelector(d, sel))

check_checkbox_compiles(selector) == sqClosed(selector)

\* checkbox.checked = check; dispatch change; checkbox.click()
setAndClick(d, f, check, d2) ==
    Out([Ok(f.method, f.node) EXCEPT !.checked = d2[f.node].checked], d2,
        <<Act(f.node, "set checked"), Act(f.node, "dispatch change"),
          Act(f.node, "click")>>)

checkboxNotFound(d, sel) ==
    Out(Fail(<<"Checkbox not found with selector: ">> \o sel), d, <<>>)

\* as checkFound, without the test of the current state
checkAlways(d, sel, check, f) ==
    IF f.node = 0 THEN checkboxNotFound(d, sel)
    ELSE setAndClick(d, f, check, click([d EXCEPT ![f.node].checked = check], f.node))

check_checkbox_always(d, selector, check) ==
    checkAlways(d, jsValue(selector), check, findCheckbox(d, jsValue(selector)))

\* lines 2124-2169, f the checkbox the methods found
checkFound(d, sel, check, f) ==
    IF f.node = 0 THEN checkboxNotFound(d, sel)
    ELSE IF d[f.node].checked # check
    THEN setAndClick(d, f, check, click([d EXCEPT ![f.node].checked = check], f.node))
    ELSE Out([Ok(f.method, f.node) EXCEPT !.checked = d[f.node].checked], d, <<>>)

check_checkbox_script(d, selector, check) ==
    checkFound(d, jsValue(selector), check, findCheckbox(d, jsValue(selector)))

----------------------------------------------------------------------------
(* Visibility                                                              *)

width(r) == r.right - r.left
height(r) == r.bottom - r.top

\* isVisible of detect_form_fields, map_form_fields and check_radio
isVisibleLaidOut(d, n) ==
    /\ n > 0
    /\ d[n].display # "none"
    /\ d[n].visibility # "hidden"
    /\ d[n].offsetParent
    /\ width(d[n].rect) > 0
    /\ height(d[n].rect) > 0

\* isVisible of fill_form
isVisible(d, n) ==
    /\ n > 0
    /\ ~ (d[n].display = "none" \/ d[n].visibility = "hidden" \/ d[n].opacity = "0")
    /\ ~ (width(d[n].rect) = 0 \/ height(d[n].rect) = 0)

----------------------------------------------------------------------------
(* select_option: src/browser/browser.py 1483-1635                         *)

DigitValue(c) ==
    CASE c = "0" -> 0 [] c = "1" -> 1 [] c = "2" -> 2 [] c = "3" -> 3 [] c = "4" -> 4
      [] c = "5" -> 5 [] c = "6" -> 6 [] c = "7" -> 7 [] c = "8" -> 8 [] c = "9" -> 9

\* /^\d+$/
IsDigits(s) == s # <<>> /\ \A i \in 1..Len(s) : s[i] \in Digits

RECURSIVE parseInt(_)
parseInt(s) ==
    IF s = <<>> THEN 0
    ELSE 10 * parseInt(SubSeq(s, 1, Len(s) - 1)) + DigitValue(s[Len(s)])

\* the attribute selectors the scripts build, [name="s"] and the like, are
\* selectors only if s closes no quote
attrSelectorOk(s) == \A i \in 1..Len(s) : s[i] \notin {"\"", "\\"}

\* an identifier evaluated as an expression: an element with that id is a
\* property of window, anything else is not defined
isGlobal(d, s) == IsIdent(s) /\ getElementById(d, s) > 0

\* line 1624 puts, between ${ and }, the literal '{value}' and right after it
\* a double quote: the tokens up to the end of the template
optionMessageTokens ==
    <<"string", "string", "identifier", "identifier", "in", "identifier", "identifier">>

\* operands with no operator between them are an expression only alone
IsExpression(tokens) == Len(tokens) = 1

select_option_compiles(selector, value) ==
    /\ sqClosed(selector)
    /\ exprOk(selector)                       \* line 1559: ${{{selector}}}
    /\ sqClosed(value)
    /\ IsExpression(optionMessageTokens)      \* line 1624

\* findElement of select_option: 0 when nothing is found, -1 when it throws
findElement(d, sel) ==
    LET css == querySelector(d, sel)
        byId == getElementById(d, sel)
        nm == byName(d, sel)
        lbl == qsa(d, 0, LAMBDA l :
                   /\ d[l].tag = "LABEL"
                   /\ includes(toLowerCase(textContent(d, l)), toLowerCase(sel))
                   /\ d[l].htmlFor # <<>>
                   /\ getElementById(d, d[l].htmlFor) > 0)
        ph == qsa(d, 0, LAMBDA i : d[i].placeholder # <<>> /\
                   includes(toLowerCase(d[i].placeholder), toLowerCase(sel)))
    IN  IF css > 0 THEN [node |-> css, method |-> "css_selector"]
        ELSE IF byId > 0 THEN [node |-> byId, method |-> "id"]
        ELSE IF ~ attrSelectorOk(sel) THEN [node |-> -1, method |-> "none"]
        ELSE IF nm # <<>> THEN [node |-> nm[1], method |-> "name"]
        ELSE IF lbl # <<>> THEN [node |-> getElementById(d, d[lbl[1]].htmlFor),
                                 method |-> "label"]
        ELSE IF ph # <<>> THEN [node |-> ph[1], method |-> "placeholder"]
        ELSE [node |-> 0, method |-> "none"]

\* the option the loop of lines 1581-1607 stops at, 0 when it stops at none
optionByValueOrText(opts, v) ==
    first(SelectSeq([i \in 1..Len(opts) |-> i], LAMBDA i :
        \/ opts[i].value = v
        \/ toLowerCase(opts[i].text) = toLowerCase(v)
        \/ includes(toLowerCase(opts[i].text), toLowerCase(v))))

\* select.selectedIndex = i (i counted from 0)
setSelectedIndex(d, n, i) ==
    [d EXCEPT ![n].selectedIndex = i, ![n].value = d[n].options[i + 1].value]

\* lines 1609-1622: option j (counted from 1) is selected, 0 for none
selectIndex(d, f, v, j) ==
    IF j > 0
    THEN Out([Ok(f.method, f.node) EXCEPT
                  !.selectedText = d[f.node].options[j].text,
                  !.selectedValue = d[f.node].options[j].value],
             setSelectedIndex(d, f.node, j - 1),
             <<Act(f.node, "set selectedIndex"), Act(f.node, "dispatch change")>>)
    ELSE Out(Fail(<<"Option not found in select element: ">> \o v), d, <<>>)

\* lines 1566-1607: by index when the value is a number below the length
optionFor(opts, v) ==
    IF IsDigits(v) /\ parseInt(v) < Len(opts) THEN parseInt(v) + 1
    ELSE optionByValueOrText(opts, v)

\* lines 1556-1564, f what findElement gave
selectIn(d, selector, v, f) ==
    IF f.node = -1
    THEN Caught("Error selecting option: ", <<"not a valid selector">>, d, <<>>)
    ELSE IF f.node = 0 \/ d[f.node].tag # "SELECT"
    THEN IF isGlobal(d, selector) \/ IsDigits(selector)
         THEN Out(Fail(<<"Could not find select element with selector: ">>), d, <<>>)
         ELSE Caught("Error selecting option: ", selector \o <<" is not defined">>,
                     d, <<>>)
    ELSE selectIndex(d, f, v, optionFor(d[f.node].options, v))

select_option_script(d, selector, value) ==
    selectIn(d, selector, jsValue(value), findElement(d, jsValue(selector)))

----------------------------------------------------------------------------
(* check_radio: src/browser/browser.py 1652-1989                           *)

\* input[type="radio"], [role="radio"]
isRadio(d, i) == (d[i].tag = "INPUT" /\ d[i].type = sRadio) \/ d[i].role = sRadio

radiosIn(d, root) == qsa(d, root, LAMBDA i : isRadio(d, i))

\* a JavaScript string that is neither undefined nor empty
truthy(s) == s # undefined /\ s # <<>>

HeadingTags == {"H1", "H2", "H3", "H4", "H5", "H6"}

\* [role="heading"], h1, h2, h3, h4, h5, h6, legend, label, p, span, div
isQuestionElement(d, i) ==
    \/ d[i].role = sHeading
    \/ d[i].tag \in HeadingTags \cup {"LEGEND", "LABEL", "P", "SPAN", "DIV"}

MaxParentLevels == 10

\* the walk up from a question element: the first of at most ten sections
\* that has a radio below it, never the body; 0 when there is none
RECURSIVE sectionFrom(_, _, _)
sectionFrom(d, section, left) ==
    IF left = 0 THEN 0
    ELSE IF radiosIn(d, section) # <<>> THEN section
    ELSE IF d[section].parent > 0 /\ d[d[section].parent].tag # "BODY"
         THEN sectionFrom(d, d[section].parent, left - 1)
         ELSE 0

formSection(d, sel) ==
    LET qs == qsa(d, 0, LAMBDA el :
                  /\ isQuestionElement(d, el)
                  /\ isVisibleLaidOut(d, el)
                  /\ includes(toLowerCase(textContent(d, el)), toLowerCase(sel))
                  /\ sectionFrom(d, el, MaxParentLevels) > 0)
    IN  IF qs = <<>> THEN 0 ELSE sectionFrom(d, qs[1], MaxParentLevels)

\* the label of a radio: label[for=id], else the label around it, else 0
radioLabelOf(d, r) ==
    LET byFor == IF d[r].id # <<>>
                 THEN first(qsa(d, 0, LAMBDA l : d[l].tag = "LABEL" /\ d[l].htmlFor = d[r].id))
                 ELSE 0
    IN  IF byFor > 0 THEN byFor
        ELSE closest(d, r, {l \in Nodes(d) : d[l].tag = "LABEL"})

\* Method 2 of Strategy 1 on one radio: how it matches the value, "" if not
radioMatch(d, r, v) ==
    LET lbl == radioLabelOf(d, r)
        lv  == toLowerCase(v)
    IN  IF truthy(d[r].value) /\ toLowerCase(d[r].value) = lv THEN "value_match"
        ELSE IF lbl = 0
        THEN IF d[r].parent > 0
                /\ includes(toLowerCase(trim(textContent(d, d[r].parent))), lv)
             THEN "nearby_text_match" ELSE ""
        ELSE IF includes(toLowerCase(trim(textContent(d, lbl))), lv)
             THEN "label_text_match" ELSE ""

notFoundValue(v) ==
    IF truthy(v) THEN v \o <<" (not found, selected first option)">>
    ELSE <<"first option">>

Clicked(d, r, method, value) ==
    Out([Ok(method, r) EXCEPT !.value = value], click(d, r), <<Act(r, "click")>>)

\* radio.checked = true; dispatch change; radio.click()
CheckedAndClicked(d, r, method, value) ==
    Out([Ok(method, r) EXCEPT !.value = value], click(setChecked(d, r, TRUE), r),
        <<Act(r, "set checked"), Act(r, "dispatch change"), Act(r, "click")>>)

\* a strategy that returns nothing
NoResult(d) == Out([NoFields EXCEPT !.kind = "none"], d, <<>>)

\* Method 1 of Strategy 1: the label and div containers with a radio inside,
\* visible and with the value in their text
matchingContainers(d, section, v) ==
    SelectSeq(qsa(d, section, LAMBDA c :
                  d[c].tag \in {"LABEL", "DIV"} /\ radiosIn(d, c) # <<>>),
              LAMBDA c :
                  /\ isVisibleLaidOut(d, c)
                  /\ includes(toLowerCase(trim(textContent(d, c))), toLowerCase(v)))

\* Method 2 of Strategy 1
matchingRadios(d, section, v) ==
    SelectSeq(radiosIn(d, section), LAMBDA r :
        isVisibleLaidOut(d, r) /\ radioMatch(d, r, v) # "")

\* Methods 1 and 2, and the fallback to the first radio of the section
pickRadio(d, v, radioButtons, byText, byRadio) ==
    IF truthy(v) /\ byText # <<>>
    THEN Clicked(d, radiosIn(d, byText[1])[1], "container_text_match", v)
    ELSE IF truthy(v) /\ byRadio # <<>>
    THEN Clicked(d, byRadio[1], radioMatch(d, byRadio[1], v), v)
    ELSE Clicked(d, radioButtons[1], "first_option", notFoundValue(v))

radioInSection(d, v, section) ==
    IF section = 0 THEN NoResult(d)
    ELSE pickRadio(d, v, radiosIn(d, section), matchingContainers(d, section, v),
                   matchingRadios(d, section, v))

\* Strategy 1, lines 1698-1856
radioByQuestion(d, sel, v) == radioInSection(d, v, formSection(d, sel))

\* Strategy 2, lines 1858-1900: the name is the value of ${selector}
radioByName(d, selector, v) ==
    LET radiosByName == IF IsDigits(selector) THEN byName(d, selector) ELSE <<>>
        exact == SelectSeq(radiosByName, LAMBDA r : d[r].type = sRadio /\ d[r].value = v)
    IN  IF radiosByName = <<>> THEN NoResult(d)
        ELSE IF truthy(v) /\ exact # <<>>
        THEN CheckedAndClicked(d, exact[1], "name_value_match", d[exact[1]].value)
        ELSE IF d[radiosByName[1]].type = sRadio
        THEN CheckedAndClicked(d, radiosByName[1], "name_first_match",
                               d[radiosByName[1]].value)
        ELSE NoResult(d)

\* Strategy 3, lines 1902-1924
directRadio(d, r) ==
    IF r > 0 /\ (d[r].type = sRadio \/ d[r].role = sRadio)
    THEN IF d[r].type = sRadio
         THEN CheckedAndClicked(d, r, "direct_selector", d[r].value)
         ELSE Clicked(d, r, "direct_selector", <<"unknown">>)
    ELSE NoResult(d)

radioBySelector(d, sel) == directRadio(d, querySelector(d, sel))

\* Strategy 4, lines 1926-1974
radioByGroup(d, sel, v) ==
    LET groups == qsa(d, 0, LAMBDA g :
                      /\ (d[g].tag \in {"FIELDSET", "FORM", "DIV"} \/ d[g].role = sRadiogroup)
                      /\ isVisibleLaidOut(d, g)
                      /\ includes(toLowerCase(textContent(d, g)), toLowerCase(sel))
                      /\ radiosIn(d, g) # <<>>)
        radios == radiosIn(d, groups[1])
        container(r) == LET l == closest(d, r, {l \in Nodes(d) : d[l].tag = "LABEL"})
                        IN  IF l > 0 THEN l ELSE d[r].parent
        match == SelectSeq(radios, LAMBDA r :
                     /\ isVisibleLaidOut(d, r)
                     /\ \/ d[r].value = v
                        \/ /\ container(r) > 0
                           /\ includes(toLowerCase(trim(textContent(d, container(r)))),
                                       toLowerCase(v)))
    IN  IF groups = <<>> THEN NoResult(d)
        ELSE IF truthy(v) /\ match # <<>>
        THEN Clicked(d, match[1], "group_match", v)
        ELSE Clicked(d, radios[1], "group_first_option", notFoundValue(v))

check_radio_compiles(selector, value) ==
    /\ sqClosed(selector) /\ tplClosed(selector)
    /\ exprOk(selector)                       \* line 1861: ${{{selector}}}
    /\ sqClosed(pyStr(value)) /\ tplClosed(pyStr(value))

\* a strategy's result, or what follows when it returned nothing
orElse(result, next) == IF result.res.kind # "none" THEN result ELSE next

\* Strategies 2-4; Strategy 2 evaluates ${selector} first
radioAfterQuestion(d, selector, sel, v) ==
    IF ~ (isGlobal(d, selector) \/ IsDigits(selector))
    THEN Caught("Error selecting radio option: ", selector \o <<" is not defined">>,
                d, <<>>)
    ELSE orElse(radioByName(d, selector, v),
         orElse(radioBySelector(d, sel),
         orElse(radioByGroup(d, sel, v),
                Out(Fail(<<"Radio button not found for question: ">> \o sel), d, <<>>))))

radioFor(d, selector, sel, v) ==
    orElse(radioByQuestion(d, sel, v), radioAfterQuestion(d, selector, sel, v))

check_radio_script(d, selector, value) ==
    radioFor(d, selector, jsValue(selector), jsValue(pyStr(value)))

----------------------------------------------------------------------------
(* fill_form, field resolution: src/browser/browser.py 892-1271            *)

\* isInputElement
isInputElement(d, n) ==
    /\ n > 0
    /\ \/ d[n].tag \in {"INPUT", "TEXTAREA", "SELECT"}
       \/ d[n].role \in {<<"t","e","x","t","b","o","x">>, <<"c","o","m","b","o","b","o","x">>,
                         sRadio, sCheckbox}
       \/ d[n].contenteditable

\* input, textarea, select, [role="radio"], [role="checkbox"], [contenteditable="true"]
isFieldElement(d, i) ==
    \/ d[i].tag \in {"INPUT", "TEXTAREA", "SELECT"}
    \/ d[i].role \in {sRadio, sCheckbox}
    \/ d[i].contenteditable

\* label, h1, h2, h3, h4, h5, h6, p, span, div, legend
isTextTag(d, i) == d[i].tag \in HeadingTags \cup {"LABEL", "P", "SPAN", "DIV", "LEGEND"}

textElements(d) == qsa(d, 0, LAMBDA i : isTextTag(d, i) \/ d[i].role = sHeading)

FormClasses == {"form-group", "form-field", "field-container", "input-group"}
GoogleContainerClasses == {"Qr7Oae", "freebirdFormviewerViewItemsItemItem", "geS5n"}
MaxContainerChildren == 15

childCount(d, n) == Cardinality(children(d, n)) + d[n].extraChildren

\* as standardContainer, without the test for text and an input
RECURSIVE standardContainerMarked(_, _)
standardContainerMarked(d, current) ==
    IF current = 0 \/ d[current].tag = "BODY" THEN 0
    ELSE IF \/ d[current].tag \in {"FORM", "FIELDSET"}
            \/ d[current].cls \cap FormClasses # {}
            \/ d[current].role = sGroup
         THEN current
    ELSE IF d[current].cls \cap GoogleContainerClasses # {} THEN current
    ELSE standardContainerMarked(d, d[current].parent)

\* the first loop of findCommonContainer, 0 when it ends at the body
RECURSIVE standardContainer(_, _)
standardContainer(d, current) ==
    IF current = 0 \/ d[current].tag = "BODY" THEN 0
    ELSE IF \/ d[current].tag \in {"FORM", "FIELDSET"}
            \/ d[current].cls \cap FormClasses # {}
            \/ d[current].role = sGroup
         THEN current
    ELSE IF d[current].cls \cap GoogleContainerClasses # {} THEN current
    ELSE IF /\ trim(textContent(d, current)) # <<>>
            /\ qsa(d, current, LAMBDA i : d[i].tag \in {"INPUT", "TEXTAREA", "SELECT"}
                                          \/ d[i].role = sRadio) # <<>>
            /\ childCount(d, current) < MaxContainerChildren
         THEN current
    ELSE standardContainer(d, d[current].parent)

\* the second loop: the nearest of the element and its ancestors with an input
RECURSIVE inputContainer(_, _)
inputContainer(d, current) ==
    IF current = 0 \/ d[current].tag = "BODY" THEN 0
    ELSE IF qsa(d, current, LAMBDA i : d[i].tag \in {"INPUT", "TEXTAREA", "SELECT"}) # <<>>
         THEN current
    ELSE inputContainer(d, d[current].parent)

\* the end of findCommonContainer: the second loop's result, else the parent
orParentElement(d, element, container) ==
    IF container > 0 THEN container ELSE d[element].parent

orInputContainer(d, element, container) ==
    IF container > 0 THEN container
    ELSE orParentElement(d, element, inputContainer(d, element))

findCommonContainer(d, element) ==
    orInputContainer(d, element, standardContainer(d, element))

\* a candidate of foundElements, with the strategy that pushed it
Candidate(n, method, score, strategy) ==
    [element |-> n, method |-> method, score |-> score, strategy |-> strategy]

RECURSIVE Flatten(_)
Flatten(ss) == IF ss = <<>> THEN <<>> ELSE Head(ss) \o Flatten(Tail(ss))

notRadioOrCheckbox(d, i) ==
    /\ d[i].type \notin {sRadio, sCheckbox}
    /\ d[i].role # sRadio
    /\ d[i].role # sCheckbox

\* the visible text elements whose trimmed text is the descriptor
exactMatches(d, fieldText) ==
    SelectSeq(textElements(d), LAMBDA el :
        /\ isVisible(d, el)
        /\ toLowerCase(trim(textContent(d, el))) = toLowerCase(fieldText))

\* a label whose for attribute names an input element
labelForInput(d, el) ==
    /\ d[el].tag = "LABEL"
    /\ d[el].htmlFor # <<>>
    /\ isInputElement(d, getElementById(d, d[el].htmlFor))

\* section.querySelectorAll of the field elements; nothing without a section
inputsOf(d, section) ==
    IF section = 0 THEN <<>> ELSE qsa(d, section, LAMBDA i : isFieldElement(d, i))

\* as pushExact, the first input taken whatever its type
pushExactFirst(inputs, textInputs) ==
    IF inputs = <<>> THEN <<>>
    ELSE IF Len(inputs) = 1
    THEN <<Candidate(inputs[1], "exact_text_match_single_input", 99, 1)>>
    ELSE <<Candidate(inputs[1], "exact_text_match_multi_input", 95, 1)>>

\* lines 921-941: one input, else the first text input, else the first input
pushExact(inputs, textInputs) ==
    IF inputs = <<>> THEN <<>>
    ELSE IF Len(inputs) = 1
    THEN <<Candidate(inputs[1], "exact_text_match_single_input", 99, 1)>>
    ELSE IF textInputs # <<>>
    THEN <<Candidate(textInputs[1], "exact_text_match_multi_input", 95, 1)>>
    ELSE <<Candidate(inputs[1], "exact_text_match_fallback", 90, 1)>>

sectionInputs(d, inputs) ==
    pushExact(inputs, SelectSeq(inputs, LAMBDA i : notRadioOrCheckbox(d, i)))

\* what Strategy 1 pushes for one exact match
sectionCandidates(d, el) == sectionInputs(d, inputsOf(d, findCommonContainer(d, el)))

\* as exactLabelOrSections, the label's input pushed without the return
exactLabelPushed(d, ms, lbl) ==
    [returned |-> FALSE,
     found |-> (IF lbl # <<>>
                THEN <<Candidate(getElementById(d, d[lbl[1]].htmlFor),
                                 "exact_label_match", 100, 1)>>
                ELSE <<>>)
               \o Flatten([k \in 1..Len(ms) |-> sectionCandidates(d, ms[k])])]

\* lines 905-913 return the input of the first exact match that is a label
\* for one; lines 915-942 push for every exact match
exactLabelOrSections(d, ms, lbl) ==
    IF lbl # <<>>
    THEN [returned |-> TRUE,
          found |-> <<Candidate(getElementById(d, d[lbl[1]].htmlFor),
                                "exact_label_match", 100, 1)>>]
    ELSE [returned |-> FALSE,
          found |-> Flatten([k \in 1..Len(ms) |-> sectionCandidates(d, ms[k])])]

exactPush(d, ms) ==
    exactLabelOrSections(d, ms, SelectSeq(ms, LAMBDA el : labelForInput(d, el)))

\* STRATEGY 1: returned is TRUE when the loop returns a label's input at once
strategy1(d, fieldText) == exactPush(d, exactMatches(d, fieldText))

abs(x) == IF x < 0 THEN -x ELSE x
min(a, b) == IF a < b THEN a ELSE b
max(a, b) == IF a > b THEN a ELSE b

BooleanWords == {sYes, sNo, sAgree, <<"d","i","s">> \o sAgree,
                 <<"a","c","c","e","p","t">>, sTrue, sFalse}

\* /yes|no|agree|disagree|accept|true|false/i
isBooleanField(fieldLower) == \E w \in BooleanWords : includes(toLowerCase(fieldLower), w)

isHeading(d, el) == d[el].tag \in HeadingTags \/ d[el].role = sHeading \/ d[el].bold

posScore(d, el, input, fieldLower) ==
    LET inputRect == d[input].rect
        labelRect == d[el].rect
        verticalDist == abs(inputRect.top - labelRect.bottom)
        horizontalOverlap == max(0, min(inputRect.right, labelRect.right)
                                    - max(inputRect.left, labelRect.left))
        isTextField == d[input].tag = "INPUT" /\ d[input].type \notin {sRadio, sCheckbox}
    IN  (1000 - verticalDist)
        + (IF horizontalOverlap > 0 THEN 200 ELSE 0)
        + (IF isTextField /\ ~ isBooleanField(fieldLower) THEN 300 ELSE 0)

\* the first element of a sequence that no other element beats: what a
\* stable sort by descending score puts first
best(s, score(_)) ==
    s[CHOOSE k \in 1..Len(s) :
        /\ \A j \in 1..Len(s) : score(s[j]) <= score(s[k])
        /\ \A j \in 1..(k - 1) : score(s[j]) < score(s[k])]

\* the inputs below the text element or level with it
inputsBelow(d, el, allInputs) ==
    SelectSeq(allInputs, LAMBDA i :
        \/ d[i].rect.top >= d[el].rect.bottom
        \/ (d[i].rect.bottom >= d[el].rect.top /\ d[i].rect.top <= d[el].rect.bottom))

visibleOf(d, allInputs, below) ==
    SelectSeq(IF below = <<>> THEN allInputs ELSE below, LAMBDA i : isVisible(d, i))

relevantInputs(d, el, allInputs) ==
    visibleOf(d, allInputs, inputsBelow(d, el, allInputs))

pushProximity(d, el, fieldLower, relevant) ==
    IF relevant = <<>> THEN <<>>
    ELSE IF Len(relevant) = 1
    THEN <<Candidate(relevant[1], "single_field_section",
                     IF isHeading(d, el) THEN 94 ELSE 88, 2)>>
    ELSE <<Candidate(best(relevant, LAMBDA i : posScore(d, el, i, fieldLower)),
                     "positioned_field", IF isHeading(d, el) THEN 92 ELSE 86, 2)>>

\* what Strategy 2 pushes for one text element
proximityCandidates(d, el, fieldLower) ==
    pushProximity(d, el, fieldLower,
                  relevantInputs(d, el, inputsOf(d, findCommonContainer(d, el))))

\* STRATEGY 2 over the text elements els, found being what was pushed so far
RECURSIVE strategy2(_, _, _, _)
strategy2(d, els, fieldLower, found) ==
    IF els = <<>> THEN found
    ELSE LET el == Head(els)
             push == IF /\ isVisible(d, el)
                        /\ includes(toLowerCase(trim(textContent(d, el))), fieldLower)
                        /\ ~ \E k \in 1..Len(found) : found[k].score > 90
                     THEN proximityCandidates(d, el, fieldLower)
                     ELSE <<>>
         IN  strategy2(d, Tail(els), fieldLower, found \o push)

\* the selectors of directSelectors, in order: what each matches and
\* whether it is written with *=
attr(d, i, a) ==
    CASE a = "id" -> d[i].id
      [] a = "name" -> d[i].name
      [] a = "placeholder" -> d[i].placeholder
      [] a = "aria-label" -> d[i].ariaLabel

DirectSelector(kind, a, tag) == [kind |-> kind, attr |-> a, tag |-> tag]

directSelectors ==
    << DirectSelector("hash", "id", "*"),
       DirectSelector("exact", "name", "*"),
       DirectSelector("exact", "placeholder", "*"),
       DirectSelector("exact", "aria-label", "*"),
       DirectSelector("contains", "id", "*"),
       DirectSelector("contains", "name", "*"),
       DirectSelector("contains", "placeholder", "INPUT"),
       DirectSelector("contains", "aria-label", "*") >>

\* document.querySelector of one of them; 0 for null and for a string that
\* is no selector (the catch continues)
queryDirect(d, sel, fieldText) ==
    CASE sel.kind = "hash" ->
            IF IsIdent(fieldText) THEN getElementById(d, fieldText) ELSE 0
      [] sel.kind = "exact" ->
            IF attrSelectorOk(fieldText)
            THEN first(qsa(d, 0, LAMBDA i : fieldText # <<>> /\ attr(d, i, sel.attr) = fieldText))
            ELSE 0
      [] sel.kind = "contains" ->
            IF attrSelectorOk(fieldText)
            THEN first(qsa(d, 0, LAMBDA i :
                     /\ sel.tag \in {"*", d[i].tag}
                     /\ fieldText # <<>>
                     /\ includes(toLowerCase(attr(d, i, sel.attr)), toLowerCase(fieldText))))
            ELSE 0

directScore(sel, fieldText) ==
    IF sel.kind = "hash" THEN 98
    ELSE IF sel.kind = "contains" \/ includes(fieldText, <<"*", "=">>) THEN 75
    ELSE 85

directCandidate(d, sel, fieldText, element) ==
    IF element > 0 /\ isInputElement(d, element) /\ isVisible(d, element)
    THEN <<Candidate(element, "direct_selector", directScore(sel, fieldText), 3)>>
    ELSE <<>>

\* STRATEGY 3
strategy3(d, fieldText) ==
    Flatten([k \in 1..Len(directSelectors) |->
        directCandidate(d, directSelectors[k], fieldText,
                        queryDirect(d, directSelectors[k], fieldText))])

GoogleItemClasses == {"Qr7Oae", "freebirdFormviewerViewItemsItemItem"}

\* .M7eMe, [role="heading"], .freebirdFormviewerViewItemsItemItemTitle, h1, ..., h5
isGoogleHeading(d, i) ==
    \/ d[i].cls \cap {"M7eMe", "freebirdFormviewerViewItemsItemItemTitle"} # {}
    \/ d[i].role = sHeading
    \/ d[i].tag \in HeadingTags \ {"H6"}

\* the walk up from a heading to the item container, or to the body
RECURSIVE googleContainer(_, _)
googleContainer(d, container) ==
    IF container = 0 THEN 0
    ELSE IF d[container].cls \cap GoogleItemClasses # {} \/ d[container].tag = "BODY"
         THEN container
    ELSE googleContainer(d, d[container].parent)

\* .whsOnd, .rFrNMe input, [role="radio"], [role="checkbox"]
isGoogleInput(d, i) ==
    \/ "whsOnd" \in d[i].cls
    \/ d[i].tag = "INPUT" /\ \E a \in Nodes(d) : "rFrNMe" \in d[a].cls /\ IsDescendant(d, i, a)
    \/ d[i].role \in {sRadio, sCheckbox}

\* as preferredInputs, without the test of the descriptor
preferredTextInputs(d, googleInputs, fieldLower) ==
    SelectSeq(googleInputs, LAMBDA i :
        d[i].type \in {sText, toLowerCase(sEmail)} \/ d[i].tag = "TEXTAREA")

\* the radio or checkbox for a boolean descriptor, else the text input
preferredInputs(d, googleInputs, fieldLower) ==
    IF isBooleanField(fieldLower)
    THEN SelectSeq(googleInputs, LAMBDA i :
             d[i].type \in {sRadio, sCheckbox} \/ d[i].role \in {sRadio, sCheckbox})
    ELSE SelectSeq(googleInputs, LAMBDA i :
             d[i].type \in {sText, toLowerCase(sEmail)} \/ d[i].tag = "TEXTAREA")

pushGoogle(googleInputs, preferred) ==
    IF googleInputs = <<>> THEN <<>>
    ELSE <<Candidate(IF preferred # <<>> THEN preferred[1] ELSE googleInputs[1],
                     "google_form_pattern", 96, 4)>>

googleInputsOf(d, container) ==
    IF container = 0 THEN <<>> ELSE qsa(d, container, LAMBDA i : isGoogleInput(d, i))

bestGoogleInput(d, googleInputs, fieldLower) ==
    pushGoogle(googleInputs, preferredInputs(d, googleInputs, fieldLower))

googleCandidates(d, heading, fieldLower) ==
    bestGoogleInput(d, googleInputsOf(d, googleContainer(d, heading)), fieldLower)

googleHeadings(d, fieldLower) ==
    qsa(d, 0, LAMBDA h :
        /\ isGoogleHeading(d, h)
        /\ isVisible(d, h)
        /\ includes(toLowerCase(trim(textContent(d, h))), fieldLower))

pushGoogleAll(d, allHeadings, fieldLower) ==
    Flatten([k \in 1..Len(allHeadings) |-> googleCandidates(d, allHeadings[k], fieldLower)])

\* STRATEGY 4
strategy4(d, fieldLower) == pushGoogleAll(d, googleHeadings(d, fieldLower), fieldLower)

\* extractPotentialFieldNames: the texts of the visible text elements
textsOf(d, els) == [k \in 1..Len(els) |-> trim(textContent(d, els[k]))]

extractPotentialFieldNames(d) ==
    textsOf(d, qsa(d, 0, LAMBDA el :
                   isTextTag(d, el) /\ isVisible(d, el) /\ trim(textContent(d, el)) # <<>>))

\* the positions of the texts that match the descriptor
nameHits(fieldNames, fieldLower) ==
    SelectSeq([k \in 1..Len(fieldNames) |-> k], LAMBDA k :
        \/ toLowerCase(fieldNames[k]) = fieldLower
        \/ includes(toLowerCase(fieldNames[k]), fieldLower))

positional(allVisibleInputs, hits) ==
    IF hits # <<>> /\ hits[1] <= Len(allVisibleInputs)
    THEN <<Candidate(allVisibleInputs[hits[1]], "positional", 60, 5)>>
    ELSE <<>>

\* STRATEGY 5: the input at the position of the first text that matches
strategy5(d, fieldLower) ==
    positional(qsa(d, 0, LAMBDA i :
                   d[i].tag \in {"INPUT", "TEXTAREA", "SELECT"} /\ isVisible(d, i)),
               nameHits(extractPotentialFieldNames(d), fieldLower))

\* as orPositional, Strategy 5 run whatever was found
orPositionalAlways(d, fieldLower, found) ==
    found \o strategy5(d, fieldLower)

\* Strategy 5 runs only when nothing was found
orPositional(d, fieldLower, found) ==
    IF found = <<>> THEN strategy5(d, fieldLower) ELSE found

afterExact(d, fieldText, fieldLower, s1) ==
    IF s1.returned THEN s1.found
    ELSE orPositional(d, fieldLower,
             strategy2(d, textElements(d), fieldLower, s1.found)
             \o strategy3(d, fieldText) \o strategy4(d, fieldLower))

\* foundElements as it stands before the sort
foundElements(d, fieldText) ==
    afterExact(d, fieldText, toLowerCase(fieldText), strategy1(d, fieldText))

NoCandidate == Candidate(0, "none", 0, 0)

\* as sortedFirst, with the comparator the other way round (a.score - b.score)
sortedFirstAscending(found) ==
    IF found = <<>> THEN NoCandidate ELSE best(found, LAMBDA c : 0 - c.score)

\* foundElements.sort((a, b) => b.score - a.score); return foundElements[0]
sortedFirst(found) ==
    IF found = <<>> THEN NoCandidate ELSE best(found, LAMBDA c : c.score)

\* as findFormField, with a sort that puts the last of the candidates of the
\* highest score first
findFormFieldLast(d, fieldText) ==
    IF foundElements(d, fieldText) = <<>> THEN NoCandidate
    ELSE foundElements(d, fieldText)[
             CHOOSE k \in 1..Len(foundElements(d, fieldText)) :
                 /\ \A j \in 1..Len(foundElements(d, fieldText)) :
                        foundElements(d, fieldText)[j].score
                            <= foundElements(d, fieldText)[k].score
                 /\ \A j \in (k + 1)..Len(foundElements(d, fieldText)) :
                        foundElements(d, fieldText)[j].score
                            < foundElements(d, fieldText)[k].score]

findFormField(d, fieldText) == sortedFirst(foundElements(d, fieldText))

----------------------------------------------------------------------------
(* fill_form and fill_by_xpath, the interaction: 1288-1451 and 784-862     *)

\* select.value = v: the first option with that value becomes the selected one
setSelectValue(d, n, v) ==
    LET k == first(SelectSeq([i \in 1..Len(d[n].options) |-> i],
                             LAMBDA i : d[n].options[i].value = v))
    IN  [d EXCEPT ![n].selectedIndex = k - 1, ![n].value = v]

\* the option the loop over element.options stops at, 0 when there is none
optionByTextOrValue(opts, v) ==
    first(SelectSeq([i \in 1..Len(opts) |-> i], LAMBDA i :
        \/ includes(toLowerCase(opts[i].text), toLowerCase(v))
        \/ toLowerCase(opts[i].value) = toLowerCase(v)))

isCheckboxLike(d, n) == d[n].type = sCheckbox \/ d[n].role = sCheckbox
isRadioLike(d, n) == d[n].type = sRadio \/ d[n].role = sRadio

CheckWords == {sTrue, sYes, sChecked, sOn}
UncheckWords == {sFalse, sNo, sUnchecked, sOff}

\* a step of a script: the DOM it leaves and what it did
Step(d, acts) == [dom |-> d, acts |-> acts]

clickStep(d, n) == Step(click(d, n), <<Act(n, "click")>>)

\* as checkboxBranch, clicking whatever the value
checkboxBranchAlways(d, n, v) == clickStep(d, n)

\* the checkbox branch
checkboxBranch(d, n, v) ==
    IF toLowerCase(v) \in CheckWords
    THEN IF ~ d[n].checked THEN clickStep(d, n) ELSE Step(d, <<>>)
    ELSE IF toLowerCase(v) \in UncheckWords
    THEN IF d[n].checked THEN clickStep(d, n) ELSE Step(d, <<>>)
    ELSE clickStep(d, n)

\* the label fill_form looks at for one radio of the group
fillRadioLabel(d, radio, v) ==
    IF d[radio].id # <<>>
    THEN first(qsa(d, 0, LAMBDA l : d[l].tag = "LABEL" /\ d[l].htmlFor = d[radio].id))
    ELSE LET around == closest(d, radio, {l \in Nodes(d) : d[l].tag = "LABEL"})
         IN  IF around > 0 THEN around
             ELSE first(qsa(d, d[radio].parent, LAMBDA l :
                      /\ d[l].tag = "LABEL"
                      /\ includes(toLowerCase(textContent(d, l)), toLowerCase(v))))

ToggleClasses == {"nWQGrd", "docssharedWizToggleLabeledContainer"}

fillRadioMatches(d, radio, v) ==
    LET label == fillRadioLabel(d, radio, v)
        container == closest(d, radio, {c \in Nodes(d) : d[c].cls \cap ToggleClasses # {}})
    IN  \/ truthy(d[radio].value) /\ toLowerCase(d[radio].value) = toLowerCase(v)
        \/ label > 0 /\ includes(toLowerCase(textContent(d, label)), toLowerCase(v))
        \/ container > 0 /\ includes(toLowerCase(textContent(d, container)), toLowerCase(v))

\* the radios fill_form takes for the group of the element it found
fillRadioGroup(d, n) ==
    IF d[n].name # <<>>
    THEN qsa(d, 0, LAMBDA i : d[i].tag = "INPUT" /\ d[i].name = d[n].name)
    ELSE IF d[n].role = sRadio
    THEN LET rg == closest(d, n, {c \in Nodes(d) : d[c].role = sRadiogroup})
             gq == closest(d, n, {c \in Nodes(d) : "Qr7Oae" \in d[c].cls})
             fm == closest(d, n, {c \in Nodes(d) : d[c].tag = "FORM"})
             container == IF rg > 0 THEN rg ELSE IF gq > 0 THEN gq ELSE fm
         IN  qsa(d, container, LAMBDA i : d[i].role = sRadio)
    ELSE <<n>>

firstOr(s, x) == IF s # <<>> THEN s[1] ELSE x

\* the radio that is clicked: with more than one radio in the group and a
\* value that is not true or yes, the first that matches, else the first
radioTarget(d, n, v, radioGroup) ==
    IF Len(radioGroup) > 1 /\ truthy(v) /\ toLowerCase(v) \notin {sTrue, sYes}
    THEN firstOr(SelectSeq(radioGroup, LAMBDA r : fillRadioMatches(d, r, v)),
                 radioGroup[1])
    ELSE n

thenClick(pre, target) ==
    Step(click(pre.dom, target), pre.acts \o <<Act(target, "click")>>)

\* the radio branch of fill_form
radioBranch(d, n, v) ==
    thenClick(IF d[n].name = <<>> /\ d[n].role # sRadio
              THEN clickStep(d, n) ELSE Step(d, <<>>),
              radioTarget(d, n, v, fillRadioGroup(d, n)))

\* the text branch
\* as textBranch, the value set without being cleared first
textBranchNoClear(d, n, v) ==
    IF d[n].value # undefined
    THEN Step([d EXCEPT ![n].value = v],
              <<Act(n, "set value"), Act(n, "dispatch input")>>)
    ELSE Step(d, <<>>)

textBranch(d, n, v) ==
    IF d[n].value # undefined
    THEN Step([d EXCEPT ![n].value = v],
              <<Act(n, "clear value"), Act(n, "dispatch input"),
                Act(n, "set value"), Act(n, "dispatch input")>>)
    ELSE IF d[n].contenteditable
    THEN Step([d EXCEPT ![n].text = v],
              <<Act(n, "set textContent"), Act(n, "dispatch input")>>)
    ELSE Step(d, <<>>)

\* the final events, for every element that is not a select / for all
finalEvents(d, n) ==
    (IF d[n].tag # "SELECT" THEN <<Act(n, "dispatch input")>> ELSE <<>>)
    \o <<Act(n, "dispatch change"), Act(n, "dispatch blur")>>

\* the select branch, k the option the loop stopped at
selectBranch(d, n, v, before, res, k) ==
    IF k > 0
    THEN Out(res, setSelectValue(d, n, d[n].options[k].value),
             before \o <<Act(n, "set value"), Act(n, "dispatch change")>>
                    \o finalEvents(d, n))
    ELSE Out(Fail(<<"Option '">> \o v \o <<"' not found in dropdown">>), d, before)

finish(d, n, before, res, st) ==
    Out(res, st.dom, before \o st.acts \o finalEvents(d, n))

\* the branches after the element is focused; radio(d, n, v) is the radio
\* branch of the caller.  before is what the script did up to here
interact(d, n, v, before, radio(_, _, _), res) ==
    IF d[n].tag = "SELECT"
    THEN selectBranch(d, n, v, before, res, optionByTextOrValue(d[n].options, v))
    ELSE finish(d, n, before, res,
                IF isCheckboxLike(d, n) THEN checkboxBranch(d, n, v)
                ELSE IF isRadioLike(d, n) THEN radio(d, n, v)
                ELSE textBranch(d, n, v))

fill_form_compiles(field, value) ==
    /\ sqClosed(field) /\ tplClosed(field)
    /\ sqClosed(value) /\ tplClosed(value)

\* as fillFound, with a message that does not name the descriptor
fillFoundNoDescriptor(d, fieldText, v, result) ==
    IF result.element = 0
    THEN Out(Fail(<<"Could not find field">>), d, <<>>)
    ELSE interact(d, result.element, v,
                  <<Act(result.element, "scrollIntoView"), Act(result.element, "focus")>>,
                  radioBranch,
                  [Ok(result.method, result.element) EXCEPT
                       !.field = fieldText, !.score = result.score, !.value = v])

\* lines 1273-1451, result what findFormField returned
fillFound(d, fieldText, v, result) ==
    IF result.element = 0
    THEN Out(Fail(<<"Could not find field: ">> \o fieldText), d, <<>>)
    ELSE interact(d, result.element, v,
                  <<Act(result.element, "scrollIntoView"), Act(result.element, "focus")>>,
                  radioBranch,
                  [Ok(result.method, result.element) EXCEPT
                       !.field = fieldText, !.score = result.score, !.value = v])

fill_form_script(d, field, value) ==
    fillFound(d, jsValue(field), jsValue(value), findFormField(d, jsValue(field)))

----------------------------------------------------------------------------
(* XPath: getXPath of the scripts and document.evaluate                    *)

DigitChars == <<"0","1","2","3","4","5","6","7","8","9">>

RECURSIVE numToChars(_)
numToChars(n) ==
    IF n < 10 THEN <<DigitChars[n + 1]>>
    ELSE numToChars(n \div 10) \o <<DigitChars[(n % 10) + 1]>>

\* 1 + the number of earlier siblings of the same tag
siblingIndex(d, n) ==
    1 + Cardinality({s \in Nodes(d) : s < n /\ d[s].parent = d[n].parent /\ d[s].tag = d[n].tag})

pathStep(d, n) ==
    <<"/">> \o tagName(d[n].tag)
    \o (IF siblingIndex(d, n) > 1 THEN <<"[">> \o numToChars(siblingIndex(d, n)) \o <<"]">>
        ELSE <<>>)

\* the loop of getXPath that stops below the body
RECURSIVE pathBelowBody(_, _)
pathBelowBody(d, n) ==
    IF d[n].parent = 0 \/ d[d[n].parent].tag = "BODY" THEN pathStep(d, n)
    ELSE pathBelowBody(d, d[n].parent) \o pathStep(d, n)

\* the loop of getXPath that stops at the document
RECURSIVE pathFromRoot(_, _)
pathFromRoot(d, n) ==
    IF d[n].parent = 0 THEN <<"/">> \o tagName("HTML") \o pathStep(d, n)
    ELSE pathFromRoot(d, d[n].parent) \o pathStep(d, n)

idPrefix == <<"/","/","*","[","@","i","d","=","\"">>
idSuffix == <<"\"","]">>

\* getXPath of select_option, check_radio, map_form_fields, click_custom_element
\* and submit_form
getXPath(d, n) ==
    IF n = 0 THEN <<"/","n","o","n","e">>
    ELSE IF d[n].id # <<>> THEN idPrefix \o d[n].id \o idSuffix
    ELSE pathBelowBody(d, n)

\* getXPath of click_element and debug_element
getXPathFromRoot(d, n) ==
    IF d[n].id # <<>> THEN idPrefix \o d[n].id \o idSuffix
    ELSE pathFromRoot(d, n)

RECURSIVE split(_, _)
split(s, sep) ==
    IF \E i \in 1..Len(s) : s[i] = sep
    THEN LET i == CHOOSE i \in 1..Len(s) : s[i] = sep /\ \A j \in 1..(i - 1) : s[j] # sep
         IN  <<SubSeq(s, 1, i - 1)>> \o split(SubSeq(s, i + 1, Len(s)), sep)
    ELSE <<s>>

\* a location step  name  or  name[k] ; k is 0 when no position is given
stepOk(st) ==
    LET parts == split(st, "[")
    IN  /\ TagOf(parts[1]) # "NONE"
        /\ \/ Len(parts) = 1
           \/ /\ Len(parts) = 2
              /\ Len(parts[2]) >= 2
              /\ parts[2][Len(parts[2])] = "]"
              /\ IsDigits(SubSeq(parts[2], 1, Len(parts[2]) - 1))

stepTag(st) == TagOf(split(st, "[")[1])
stepPosition(st) ==
    LET parts == split(st, "[")
    IN  IF Len(parts) = 1 THEN 0 ELSE parseInt(SubSeq(parts[2], 1, Len(parts[2]) - 1))

DocumentNode == -1
HtmlNode == -2

\* the children of the nodes of ctx that one location step selects
stepFrom(d, ctx, st) ==
    (IF DocumentNode \in ctx /\ stepTag(st) = "HTML" /\ stepPosition(st) \in {0, 1}
     THEN {HtmlNode} ELSE {})
    \cup {c \in Nodes(d) :
            /\ d[c].tag = stepTag(st)
            /\ (IF d[c].parent = 0 THEN HtmlNode ELSE d[c].parent) \in ctx
            /\ stepPosition(st) \in {0, siblingIndex(d, c)}}

RECURSIVE stepsFrom(_, _, _)
stepsFrom(d, ctx, steps) ==
    IF steps = <<>> THEN ctx ELSE stepsFrom(d, stepFrom(d, ctx, Head(steps)), Tail(steps))

isIdPath(x) ==
    /\ Len(x) > Len(idPrefix) + Len(idSuffix)
    /\ SubSeq(x, 1, Len(idPrefix)) = idPrefix
    /\ SubSeq(x, Len(x) - 1, Len(x)) = idSuffix

\* document.evaluate(xpath, document, null, FIRST_ORDERED_NODE_TYPE, null)
\* .singleNodeValue : 0 for null, -1 for an expression that does not parse
getElementByXPath(d, x) ==
    IF isIdPath(x)
    THEN LET id == SubSeq(x, Len(idPrefix) + 1, Len(x) - 2)
         IN  first(qsa(d, 0, LAMBDA i : d[i].id = id))
    ELSE IF x # <<>> /\ Head(x) = "/"
    THEN LET steps == split(Tail(x), "/")
         IN  IF \A k \in 1..Len(steps) : stepOk(steps[k])
             THEN LET found == stepsFrom(d, {DocumentNode}, steps) \cap Nodes(d)
                  IN  IF found = {} THEN 0
                      ELSE CHOOSE n \in found : \A m \in found : n <= m
             ELSE -1
    ELSE IF IsIdent(x) THEN 0
    ELSE -1

fill_by_xpath_compiles(xpath, value) ==
    /\ sqClosed(xpath) /\ tplClosed(xpath)
    /\ sqClosed(value) /\ tplClosed(value)

\* the radio branch of fill_by_xpath: simply click
xpathRadioBranch(d, n, v) == clickStep(d, n)

fill_by_xpath_script(d, xpath, value) ==
    LET x == jsValue(xpath)
        v == jsValue(value)
        n == getElementByXPath(d, x)
    IN  IF n = -1 THEN Caught("Error filling by XPath: ", <<"not a valid XPath expression">>,
                              d, <<>>)
        ELSE IF n = 0 THEN Out(Fail(<<"Element not found by XPath: ">> \o x), d, <<>>)
        ELSE interact(d, n, v, <<Act(n, "focus")>>, xpathRadioBranch,
                      [Ok("xpath", n) EXCEPT !.xpath = x, !.value = v])

----------------------------------------------------------------------------
(* detect_form_fields and map_form_fields: 274-431 and 483-711             *)

sSelect == <<"s","e","l","e","c","t">>
sContenteditable == <<"c","o","n","t","e","n","t","e","d","i","t","a","b","l","e">>
sUnknown == <<"u","n","k","n","o","w","n">>

\* a || b on strings
or(a, b) == IF truthy(a) THEN a ELSE b

\* the text of a clone of the label from which input, select and textarea
\* elements have been removed
RECURSIVE textWithoutInputs(_, _, _)
textWithoutInputs(d, root, i) ==
    IF i > Len(d) THEN <<>>
    ELSE (IF InSubtree(d, i, root) /\ d[i].tag \notin {"INPUT", "SELECT", "TEXTAREA"}
          THEN d[i].text ELSE <<>>) \o textWithoutInputs(d, root, i + 1)

\* the nearby text: the first child node of the parent that is a text node
\* or an element other than a form control, and has text
nearbyLabel(d, n) ==
    LET parent == d[n].parent
        kids == SelectSeq(Idx(d), LAMBDA c :
                    /\ d[c].parent = parent
                    /\ c # n
                    /\ d[c].tag \notin {"INPUT", "SELECT", "TEXTAREA", "BUTTON"}
                    /\ trim(textContent(d, c)) # <<>>)
    IN  IF parent = 0 THEN <<>>
        ELSE IF trim(d[parent].text) # <<>> THEN trim(d[parent].text)
        ELSE IF kids # <<>> THEN trim(textContent(d, kids[1]))
        ELSE <<>>

getLabelText(d, n) ==
    LET byFor == IF d[n].id # <<>>
                 THEN first(qsa(d, 0, LAMBDA l : d[l].tag = "LABEL" /\ d[l].htmlFor = d[n].id))
                 ELSE 0
        parentLabel == closest(d, n, {l \in Nodes(d) : d[l].tag = "LABEL"})
    IN  IF byFor > 0 /\ trim(textContent(d, byFor)) # <<>> THEN trim(textContent(d, byFor))
        ELSE IF parentLabel > 0 /\ trim(textContent(d, parentLabel)) # <<>>
        THEN trim(textWithoutInputs(d, parentLabel, parentLabel))
        ELSE IF nearbyLabel(d, n) # <<>> THEN nearbyLabel(d, n)
        ELSE IF d[n].ariaLabel # <<>> THEN d[n].ariaLabel
        ELSE IF d[n].placeholder # <<>> THEN d[n].placeholder
        ELSE or(d[n].name, d[n].id)

getFieldType(d, n) ==
    IF d[n].tag = "SELECT" THEN sSelect
    ELSE IF d[n].tag = "TEXTAREA" THEN sTextarea
    ELSE IF d[n].tag = "INPUT" THEN or(d[n].type, sText)
    ELSE IF d[n].contenteditable THEN sContenteditable
    ELSE sUnknown

\* the options reported for a radio that is one of several of its name
radioOptions(d, n) ==
    LET radioGroup == qsa(d, 0, LAMBDA r :
                          d[r].tag = "INPUT" /\ d[r].type = sRadio /\ d[r].name = d[n].name)
    IN  IF getFieldType(d, n) = sRadio /\ d[n].name # <<>> /\ Len(radioGroup) > 1
        THEN [k \in 1..Len(radioGroup) |->
                 Opt(d[radioGroup[k]].value,
                     or(getLabelText(d, radioGroup[k]), d[radioGroup[k]].value))]
        ELSE <<>>

\* input:not([type="hidden"]), select, textarea, [contenteditable="true"],
\* visible, and identified by a label, a name, an id or a placeholder
formFieldElements(d) ==
    qsa(d, 0, LAMBDA n :
        /\ \/ d[n].tag = "INPUT" /\ d[n].type # sHidden
           \/ d[n].tag \in {"SELECT", "TEXTAREA"}
           \/ d[n].contenteditable
        /\ isVisibleLaidOut(d, n)
        /\ \/ getLabelText(d, n) # <<>> \/ d[n].name # <<>>
           \/ d[n].id # <<>> \/ d[n].placeholder # <<>>)

selectorOf(d, n) ==
    IF d[n].id # <<>> THEN <<"#">> \o d[n].id
    ELSE IF d[n].name # <<>> THEN <<"[","n","a","m","e","=","\"">> \o d[n].name \o <<"\"","]">>
    ELSE null

\* one entry of formFields, as detect_form_fields builds it
Field(d, n) ==
    [node |-> n, label |-> getLabelText(d, n), name |-> d[n].name, id |-> d[n].id,
     type |-> getFieldType(d, n), required |-> d[n].required,
     placeholder |-> d[n].placeholder,
     options |-> IF d[n].tag = "SELECT" THEN d[n].options ELSE <<>>,
     radioOptions |-> radioOptions(d, n),
     hasValue |-> truthy(d[n].value),
     selector |-> selectorOf(d, n),
     xpath |-> <<>>, example |-> <<>>]

getExampleValue(field) ==
    LET type == field.type
        label == toLowerCase(or(field.label, or(field.name, field.id)))
    IN  IF type \in {sText, sTextarea}
        THEN IF includes(label, toLowerCase(sName)) THEN <<"John Doe">>
             ELSE IF includes(label, toLowerCase(sEmail)) THEN <<"example@email.com">>
             ELSE IF includes(label, <<"p","h","o","n","e">>) THEN <<"555-123-4567">>
             ELSE IF includes(label, <<"a","d","d","r","e","s","s">>) THEN <<"123 Main Street">>
             ELSE <<"Sample text">>
        ELSE IF type = sSelect
        THEN IF field.options # <<>> THEN field.options[1].text ELSE <<"Select an option">>
        ELSE IF type = sRadio
        THEN IF field.radioOptions # <<>> THEN field.radioOptions[1].text
             ELSE <<"Select an option">>
        ELSE IF type = sCheckbox THEN sTrue
        ELSE IF type = toLowerCase(sEmail) THEN <<"example@email.com">>
        ELSE IF type = <<"n","u","m","b","e","r">> THEN <<"42">>
        ELSE IF type = <<"d","a","t","e">> THEN <<"2025-04-27">>
        ELSE <<"Sample value">>

\* one entry of formFields, as map_form_fields builds it
MappedField(d, n) ==
    LET f == [Field(d, n) EXCEPT !.xpath = getXPath(d, n)]
    IN  [f EXCEPT !.example = getExampleValue(f)]

detect_form_fields_script(d) ==
    LET els == formFieldElements(d)
    IN  Out([Ok("detect", 0) EXCEPT !.fields = [k \in 1..Len(els) |-> Field(d, els[k])]],
            d, <<>>)

\* as map_form_fields_script, over every input, select and textarea
map_form_fields_unfiltered(d) ==
    LET els == qsa(d, 0, LAMBDA n : d[n].tag \in {"INPUT", "SELECT", "TEXTAREA"})
    IN  Out([Ok("map", 0) EXCEPT !.fields = [k \in 1..Len(els) |-> MappedField(d, els[k])]],
            d, <<>>)

map_form_fields_script(d) ==
    LET els == formFieldElements(d)
    IN  Out([Ok("map", 0) EXCEPT !.fields = [k \in 1..Len(els) |-> MappedField(d, els[k])]],
            d, <<>>)

----------------------------------------------------------------------------
(* click_custom_element: 2200-2342                                         *)

sAriaLabel == <<"a","r","i","a","-","l","a","b","e","l">>
sStar == <<"s","t","a","r">>
sButton == <<"b","u","t","t","o","n">>
StarSymbol == "*star*"

\* element.getAttribute(a), <<>> for an attribute that is absent
getAttribute(d, i, a) ==
    CASE a = <<"i","d">> -> d[i].id
      [] a = toLowerCase(sName) -> d[i].name
      [] a = sAriaLabel -> d[i].ariaLabel
      [] a = <<"r","o","l","e">> -> d[i].role
      [] a = <<"t","i","t","l","e">> -> d[i].title
      [] a = <<"t","y","p","e">> -> IF d[i].type = undefined THEN <<>> ELSE d[i].type
      [] a = <<"v","a","l","u","e">> -> IF d[i].value = undefined THEN <<>> ELSE d[i].value
      [] OTHER -> <<>>

\* a simple selector: #id or a tag name
isSimpleSelector(s) ==
    \/ s # <<>> /\ Head(s) = "#" /\ IsIdent(Tail(s))
    \/ IsIdent(s)

matches(d, i, s) ==
    IF Head(s) = "#" THEN d[i].id = Tail(s) ELSE d[i].tag = TagOf(s)

click_custom_element_compiles(selector, attribute, value) ==
    sqClosed(selector) /\ sqClosed(pyStr(attribute)) /\ sqClosed(pyStr(value))

\* the element the five attempts find, with the method; node -1 when a
\* selector outside a try block does not parse
findCustomElement(d, sel, a, v) ==
    LET compound == IF isSimpleSelector(sel) /\ IsIdent(SelectSeq(a, LAMBDA c : c # "-"))
                       /\ attrSelectorOk(v)
                    THEN first(qsa(d, 0, LAMBDA i :
                             matches(d, i, sel) /\ getAttribute(d, i, a) = v))
                    ELSE 0
        css == IF querySelector(d, sel) > 0 THEN querySelector(d, sel) ELSE 0
        m1 == IF truthy(a) /\ truthy(v) THEN compound ELSE css
        m2 == getElementById(d, sel)
        an == or(a, sAriaLabel)
        m3ok == IsIdent(SelectSeq(an, LAMBDA c : c # "-")) /\ attrSelectorOk(v)
        m3 == first(qsa(d, 0, LAMBDA i : getAttribute(d, i, an) = v))
        stars == qsa(d, 0, LAMBDA i :
                     /\ d[i].tag = "BUTTON" \/ d[i].role = sButton
                     /\ \/ \E k \in 1..Len(textContent(d, i)) : textContent(d, i)[k] = StarSymbol
                        \/ includes(toLowerCase(d[i].ariaLabel), sStar))
        starValue == IF IsDigits(v) THEN parseInt(v) ELSE 0
        m4 == IF includes(toLowerCase(sel), sStar) /\ truthy(v) /\ stars # <<>>
                 /\ starValue > 0 /\ starValue <= Len(stars)
              THEN stars[starValue] ELSE 0
        m5ok == sel = <<>> \/ isSimpleSelector(sel)
        m5 == first(qsa(d, 0, LAMBDA i :
                  /\ sel = <<>> \/ matches(d, i, sel)
                  /\ toLowerCase(trim(textContent(d, i))) = toLowerCase(v)))
    IN  IF m1 > 0 THEN [node |-> m1, method |-> IF truthy(a) /\ truthy(v)
                                                THEN "attribute_selector" ELSE "css_selector"]
        ELSE IF m2 > 0 THEN [node |-> m2, method |-> "id"]
        ELSE IF truthy(v) /\ ~ m3ok THEN [node |-> -1, method |-> ""]
        ELSE IF truthy(v) /\ m3 > 0 THEN [node |-> m3, method |-> "aria_attribute"]
        ELSE IF m4 > 0 THEN [node |-> m4, method |-> "star_rating"]
        ELSE IF truthy(v) /\ ~ m5ok THEN [node |-> -1, method |-> ""]
        ELSE IF truthy(v) /\ m5 > 0 THEN [node |-> m5, method |-> "text_content"]
        ELSE [node |-> 0, method |-> ""]

click_custom_element_script(d, selector, attribute, value) ==
    LET sel == jsValue(selector)
        f == findCustomElement(d, sel, jsValue(pyStr(attribute)), jsValue(pyStr(value)))
        n == f.node
    IN  IF n = -1
        THEN Caught("Error clicking custom element: ", <<"not a valid selector">>, d, <<>>)
        ELSE IF n = 0
        THEN Out(Fail(<<"Custom element not found with selector: ">> \o sel), d, <<>>)
        ELSE Out([Ok(f.method, n) EXCEPT !.xpath = getXPath(d, n)], click(d, n),
                 <<Act(n, "scrollIntoView"), Act(n, "click")>>)

----------------------------------------------------------------------------
(* click_element: 2362-2456                                                *)

isClickable(d, i) ==
    \/ d[i].tag \in {"A", "BUTTON"}
    \/ d[i].role = sButton
    \/ "btn" \in d[i].cls
    \/ d[i].tag = "INPUT" /\ d[i].type \in {sButton, <<"s","u","b","m","i","t">>}

findClickableElement(d, sel) ==
    LET css == querySelector(d, sel)
        byText == first(qsa(d, 0, LAMBDA i :
                      /\ isClickable(d, i)
                      /\ textContent(d, i) # <<>>
                      /\ includes(toLowerCase(textContent(d, i)), toLowerCase(sel))))
        labelled(a) == IF attrSelectorOk(sel) /\ sel # <<>>
                       THEN first(qsa(d, 0, LAMBDA i :
                                includes(toLowerCase(a[i]), toLowerCase(sel))))
                       ELSE 0
        byAria == labelled([i \in Nodes(d) |-> d[i].ariaLabel])
        byTitle == labelled([i \in Nodes(d) |-> d[i].title])
        byAlt == labelled([i \in Nodes(d) |-> d[i].alt])
        byTestid == labelled([i \in Nodes(d) |-> d[i].testid])
    IN  IF css > 0 THEN [node |-> css, method |-> "css_selector"]
        ELSE IF byText > 0 THEN [node |-> byText, method |-> "text_content"]
        ELSE IF byAria > 0 THEN [node |-> byAria, method |-> "attribute"]
        ELSE IF byTitle > 0 THEN [node |-> byTitle, method |-> "attribute"]
        ELSE IF byAlt > 0 THEN [node |-> byAlt, method |-> "attribute"]
        ELSE IF byTestid > 0 THEN [node |-> byTestid, method |-> "attribute"]
        ELSE [node |-> 0, method |-> "none"]

click_element_compiles(selector) == sqClosed(selector) /\ tplClosed(selector)

click_element_script(d, selector) ==
    LET sel == jsValue(selector)
        f == findClickableElement(d, sel)
    IN  IF f.node > 0
        THEN Out([Ok(f.method, f.node) EXCEPT !.xpath = getXPathFromRoot(d, f.node)],
                 click(d, f.node), <<Act(f.node, "click")>>)
        ELSE Out(Fail(<<"Element not found">>), d, <<>>)

----------------------------------------------------------------------------
(* submit_form: 2472-2663                                                  *)

sSubmit == <<"s","u","b","m","i","t">>

\* the selectors of buttonSelectors that parse, as predicates, in order
isSubmitButton(d, i, k) ==
    CASE k = 1 -> d[i].tag = "BUTTON" /\ d[i].type = sSubmit
      [] k = 2 -> d[i].tag = "INPUT" /\ d[i].type = sSubmit
      [] k = 3 -> "form-submit-button" \in d[i].cls
      [] k = 4 -> d[i].tag = "BUTTON" /\ "submit" \in d[i].cls
      [] k = 5 -> d[i].tag = "BUTTON" /\ "submit-button" \in d[i].cls
      [] k = 6 -> d[i].tag = "BUTTON" /\ "primary" \in d[i].cls
                  /\ d[i].role # <<"r","e","s","e","t">>

ParsingButtonSelectors == 6

submitKeywords ==
    << sSubmit, <<"s","e","n","d">>, <<"s","a","v","e">>,
       <<"c","o","n","t","i","n","u","e">>, <<"n","e","x","t">>,
       <<"f","i","n","i","s","h">>, <<"c","o","m","p","l","e","t","e">>,
       <<"d","o","n","e">> >>

\* className contains submit or primary
hasSubmitClass(d, i) ==
    \E c \in d[i].cls : c \in {"submit", "submit-button", "form-submit-button", "primary"}

submit_form_compiles(selector) == sqClosed(selector)

submit_form_script(d, selector) ==
    LET sel == jsValue(selector)
        visibleButtons(k) == qsa(d, 0, LAMBDA i :
                                 isSubmitButton(d, i, k) /\ isVisibleLaidOut(d, i))
        hitSelectors == SelectSeq([k \in 1..ParsingButtonSelectors |-> k],
                                  LAMBDA k : visibleButtons(k) # <<>>)
        buttonText(i) == toLowerCase(or(textContent(d, i), or(d[i].value, <<>>)))
        keywordButtons == qsa(d, 0, LAMBDA i :
            /\ \/ d[i].tag = "BUTTON"
               \/ d[i].tag = "INPUT" /\ d[i].type = sButton
               \/ d[i].role = sButton
            /\ \/ \E k \in 1..Len(submitKeywords) : includes(buttonText(i), submitKeywords[k])
               \/ hasSubmitClass(d, i))
        custom == querySelector(d, sel)
        form == first(qsa(d, 0, LAMBDA i : d[i].tag = "FORM"))
    IN  IF hitSelectors # <<>>
        THEN LET btn == visibleButtons(hitSelectors[1])[1]
             IN  Out([Ok("submit_button_click", btn) EXCEPT !.xpath = getXPath(d, btn)],
                     click(d, btn), <<Act(btn, "click")>>)
        ELSE IF keywordButtons # <<>>
        THEN LET btn == keywordButtons[1]
             IN  Out([Ok("keyword_button_click", btn) EXCEPT !.xpath = getXPath(d, btn)],
                     click(d, btn), <<Act(btn, "click")>>)
        ELSE IF sel # sForm /\ custom = -1
        THEN Caught("Error during form submission: ", <<"not a valid selector">>, d, <<>>)
        ELSE IF sel # sForm /\ custom > 0 /\ d[custom].tag = "FORM"
        THEN Out([Ok("custom_form_submit", custom) EXCEPT !.xpath = getXPath(d, custom)],
                 d, <<Act(custom, "submit")>>)
        ELSE IF sel # sForm /\ custom > 0
                /\ (d[custom].tag \in {"BUTTON", "INPUT"} \/ d[custom].role = sButton)
        THEN Out([Ok("custom_element_click", custom) EXCEPT !.xpath = getXPath(d, custom)],
                 click(d, custom), <<Act(custom, "click")>>)
        ELSE IF form > 0
        THEN Out([Ok("form_submit", form) EXCEPT !.xpath = getXPath(d, form)],
                 d, <<Act(form, "submit")>>)
        ELSE Out(Fail(<<"No submit button or form found">>), d, <<>>)

----------------------------------------------------------------------------
(* debug_element: 2717-2805                                                *)

debug_element_compiles(selector) == sqClosed(selector)

debug_element_script(d, selector) ==
    LET element == querySelector(d, jsValue(selector))
    IN  IF element = -1
        THEN Out([Fail(<<"Error: not a valid selector">>) EXCEPT !.found = FALSE], d, <<>>)
        ELSE IF element = 0
        THEN Out([Fail(<<"Element not found">>) EXCEPT !.found = FALSE], d, <<>>)
        ELSE Out([NoFields EXCEPT !.found = TRUE, !.node = element,
                                  !.value = d[element].value,
                                  !.checked = d[element].checked,
                                  !.xpath = getXPathFromRoot(d, element)], d, <<>>)

----------------------------------------------------------------------------
(* The script evaluation bridge and the callers                            *)

\* one runJavaScript call: the operation and the strings put into its script
Evaluation(id, op, field, value) ==
    [id |-> id, op |-> op, field |-> field, value |-> value,
     attribute |-> null, check |-> TRUE]

\* the source text compiles
Compiles(e) ==
    CASE e.op = "detect_form_fields" -> TRUE
      [] e.op = "map_form_fields" -> TRUE
      [] e.op = "fill_form" -> fill_form_compiles(e.field, e.value)
      [] e.op = "fill_by_xpath" -> fill_by_xpath_compiles(e.field, e.value)
      [] e.op = "select_option" -> select_option_compiles(e.field, e.value)
      [] e.op = "check_radio" -> check_radio_compiles(e.field, e.value)
      [] e.op = "check_checkbox" -> check_checkbox_compiles(e.field)
      [] e.op = "click_custom_element" ->
             click_custom_element_compiles(e.field, e.attribute, e.value)
      [] e.op = "click_element" -> click_element_compiles(e.field)
      [] e.op = "submit_form" -> submit_form_compiles(e.field)
      [] e.op = "debug_element" -> debug_element_compiles(e.field)

\* the value and the effects of the script, run against the DOM d
RunScript(e, d) ==
    CASE e.op = "detect_form_fields" -> detect_form_fields_script(d)
      [] e.op = "map_form_fields" -> map_form_fields_script(d)
      [] e.op = "fill_form" -> fill_form_script(d, e.field, e.value)
      [] e.op = "fill_by_xpath" -> fill_by_xpath_script(d, e.field, e.value)
      [] e.op = "select_option" -> select_option_script(d, e.field, e.value)
      [] e.op = "check_radio" -> check_radio_script(d, e.field, e.value)
      [] e.op = "check_checkbox" -> check_checkbox_script(d, e.field, e.check)
      [] e.op = "click_custom_element" ->
             click_custom_element_script(d, e.field, e.attribute, e.value)
      [] e.op = "click_element" -> click_element_script(d, e.field)
      [] e.op = "submit_form" -> submit_form_script(d, e.field)
      [] e.op = "debug_element" -> debug_element_script(d, e.field)

Stamp(id, acts) ==
    [i \in 1..Len(acts) |-> [eval |-> id, node |-> acts[i].node, kind |-> acts[i].kind]]

\* the handlers: what the callback does with its payload.  result.get(...)
\* on None raises AttributeError; only the form fill handler tests for None
ChecksNone(op) == op \in {"fill_form"}

\* _handle_map_fields_result calls llm_integration.generate_form_data_from_mapping,
\* which class BrowserLLMIntegration does not define
LLMIntegrationMethods == {"handle_user_message", "handle_llm_error",
                          "generate_sample_form_data", "handle_llm_response"}

\* the method a handler calls on the LLM integration after a success; "" for none
FollowUp(op, res) ==
    IF op = "detect_form_fields" /\ res.fields # <<>> THEN "generate_sample_form_data"
    ELSE IF op = "map_form_fields" /\ res.fields # <<>>
    THEN "generate_form_data_from_mapping"
    ELSE ""

Handle(op, res) ==
    IF res.kind = "null"
    THEN IF ChecksNone(op)
         THEN [raised |-> FALSE, reported |-> "failure"]
         ELSE [raised |-> TRUE, reported |-> "none"]
    ELSE IF (IF op = "debug_element" THEN res.found ELSE res.success)
         THEN [raised |-> FollowUp(op, res) \notin LLMIntegrationMethods \cup {""},
               reported |-> "success"]
         ELSE [raised |-> FALSE, reported |-> "failure"]

\* an LLMThread that was started: for the sample-data prompt of
\* generate_sample_form_data or for a chat message; the chunks it has
\* emitted so far, and whether its stream has ended
LLMThread(kind) == [kind |-> kind, chunks |-> 0, done |-> FALSE]

\* what the handler leaves in the browser and in the LLM integration
Keep(a, op, res) ==
    IF res.kind = "null" THEN a
    ELSE IF op = "detect_form_fields"
    THEN [a EXCEPT !.detected_form_fields = IF res.success THEN res.fields ELSE <<>>,
                   !.auto_fill_requested =
                       IF res.success /\ res.fields # <<>> THEN TRUE ELSE @,
                   !.prompts = IF res.success /\ res.fields # <<>> THEN @ + 1 ELSE @,
                   !.requests = IF res.success /\ res.fields # <<>>
                                THEN Append(@, LLMThread("sample")) ELSE @]
    ELSE IF op = "map_form_fields" /\ res.success /\ res.fields # <<>>
    THEN [a EXCEPT !.mapped_form_fields = res.fields]
    ELSE a

\* the evaluations the page has run, each with the value of its script
Ran ==
    {[id |-> r.id, e |-> r.e, res |-> r.res] : r \in ready} \cup
    {[id |-> handled[i].id, e |-> handled[i].e, res |-> handled[i].res] :
         i \in 1..Len(handled)}

\* what evaluation id did to the elements
ActsOf(id) == SelectSeq(trace, LAMBDA a : a.eval = id)

\* the page runs the oldest submitted script: a source text that does not
\* compile gives the callback no value and touches nothing
Outcome(e, d) == IF Compiles(e) THEN RunScript(e, d) ELSE Out(Null, d, <<>>)

\* the page takes the outcome of evaluation e
Finish(e, out) ==
    /\ dom' = out.dom
    /\ trace' = trace \o Stamp(e.id, out.acts)
    /\ ready' = ready \cup {[id |-> e.id, op |-> e.op, e |-> e, res |-> out.res]}

Evaluate ==
    /\ pc # "aborted"
    /\ queue # <<>>
    /\ Finish(Head(queue), Outcome(Head(queue), dom))
    /\ queue' = Tail(queue)
    /\ UNCHANGED <<pc, todo, submitted, handled, app, calls>>

\* the page has no value for the script (JavaScript switched off for the
\* page, the render process gone): the callback gets None
EvaluateNoValue ==
    /\ pc # "aborted"
    /\ queue # <<>>
    /\ LET e == Head(queue)
       IN  ready' = ready \cup {[id |-> e.id, op |-> e.op, e |-> e, res |-> Null]}
    /\ queue' = Tail(queue)
    /\ UNCHANGED <<dom, pc, todo, submitted, trace, handled, app, calls>>

\* where Python stands after a callback.  An exception that leaves a callback
\* has no Python frame to return to: the binding prints the traceback and,
\* with no sys.excepthook installed (src/main.py installs none), PyQt6 ends
\* the process; other builds of the binding print it and let the event loop
\* go on
AfterCallback(raised) == IF raised THEN {"idle", "aborted"} ELSE {"idle"}

\* a callback fires on Python's event loop, which runs no callback while
\* an operation is still executing
Deliver ==
    /\ pc = "idle"
    /\ \E r \in ready :
         LET h == Handle(r.op, r.res)
         IN  /\ handled' = Append(handled,
                     [id |-> r.id, op |-> r.op, e |-> r.e, res |-> r.res,
                      raised |-> h.raised, reported |-> h.reported])
             /\ app' = Keep(app, r.op, r.res)
             /\ ready' = ready \ {r}
             /\ pc' \in AfterCallback(h.raised)
    /\ UNCHANGED <<dom, todo, queue, submitted, trace, calls>>

\* Python hands one evaluation to runJavaScript
Submit(e) ==
    /\ queue' = Append(queue, e)
    /\ submitted' = Append(submitted, e)

NextId == Len(submitted) + 1

InitWith(pages) ==
    /\ dom \in pages
    /\ pc = "idle"
    /\ todo = <<>>
    /\ queue = <<>>
    /\ ready = {}
    /\ submitted = <<>>
    /\ trace = <<>>
    /\ handled = <<>>
    /\ app = [detected_form_fields |-> <<>>, mapped_form_fields |-> <<>>,
              auto_fill_requested |-> FALSE, prompts |-> 0,
              requests |-> <<>>, commands |-> <<>>]
    /\ calls = <<>>

----------------------------------------------------------------------------
(* The operations, as a caller starts them                                 *)

\* an operation that builds one script and returns
Started(op, data) == [op |-> op, data |-> data, first |-> NextId]

Begin(e) ==
    /\ pc = "idle"
    /\ Submit(e)
    /\ calls' = Append(calls, Started(e.op, << <<e.field, e.value>> >>))
    /\ UNCHANGED <<dom, pc, todo, ready, trace, handled>>

Call(e, bound) ==
    /\ Len(calls) < bound
    /\ Begin(e)
    /\ UNCHANGED app

\* fill_form(field_data) and fill_by_xpath(xpath_data) enter their for loop;
\* a dict is the sequence of its items in insertion order
BeginLoop(op, data) ==
    /\ pc = "idle"
    /\ calls' = Append(calls, Started(op, data))
    /\ todo' = data
    /\ pc' = IF data = <<>> THEN "idle" ELSE op
    /\ UNCHANGED <<dom, queue, ready, submitted, trace, handled>>

EnterLoop(op, data, bound) ==
    /\ Len(calls) < bound
    /\ BeginLoop(op, data)
    /\ UNCHANGED app

\* as LoopStep, iterating over the items from the last to the first
LoopStepReversed(op) ==
    /\ pc = op
    /\ todo # <<>>
    /\ Submit(Evaluation(NextId, op, todo[Len(todo)][1], todo[Len(todo)][2]))
    /\ todo' = SubSeq(todo, 1, Len(todo) - 1)
    /\ pc' = IF Len(todo) = 1 THEN "idle" ELSE op
    /\ UNCHANGED <<dom, ready, trace, handled, app, calls>>

\* one iteration: build the script of the next item and hand it over; the
\* operation returns after the last one
LoopStep(op) ==
    /\ pc = op
    /\ todo # <<>>
    /\ Submit(Evaluation(NextId, op, Head(todo)[1], Head(todo)[2]))
    /\ todo' = Tail(todo)
    /\ pc' = IF Tail(todo) = <<>> THEN "idle" ELSE op
    /\ UNCHANGED <<dom, ready, trace, handled, app, calls>>

FillFormStep == LoopStep("fill_form")
FillByXPathStep == LoopStep("fill_by_xpath")

----------------------------------------------------------------------------
(* check_checkbox on pages with one checkbox                               *)

MaxCheckboxCalls == 2

sAccept == <<"a","c","c","e","p","t">>
sIAgree == <<"I"," ">> \o sAgree

\* <label for="agree">I agree</label><input type="checkbox" id="agree" name="agree">
pageCheckboxFor(checked) ==
    << Body,
       [Text("LABEL", 1, sIAgree) EXCEPT !.htmlFor = sAgree],
       [Input(1, sCheckbox) EXCEPT !.id = sAgree, !.name = sAgree, !.value = sOn,
                                   !.checked = checked] >>

\* <label>accept<input type="checkbox"></label>
pageCheckboxWrapped(checked) ==
    << Body,
       Text("LABEL", 1, sAccept),
       [Input(2, sCheckbox) EXCEPT !.value = sOn, !.checked = checked] >>

CheckboxPages ==
    {pageCheckboxFor(c) : c \in BOOLEAN} \cup {pageCheckboxWrapped(c) : c \in BOOLEAN}

CheckboxSelectors == {sHashAgree, sAgree, sAccept, sName, sQuote}

CallCheckCheckbox ==
    \E sel \in CheckboxSelectors, check \in BOOLEAN :
        Call([Evaluation(NextId, "check_checkbox", sel, null) EXCEPT !.check = check],
             MaxCheckboxCalls)

InitCheckbox == InitWith(CheckboxPages)
NextCheckbox == CallCheckCheckbox \/ Evaluate \/ Deliver
SpecCheckbox == InitCheckbox /\ [][NextCheckbox]_vars


\* C2: after check_checkbox(sel, true) is called twice in a row on a native
\* checkbox, the checkbox is checked and the second call did nothing to it
C2_TwiceLeavesChecked ==
    \A a \in Ran, b \in Ran :
        ( /\ a.id = 1 /\ b.id = 2 /\ Len(submitted) = 2
          /\ a.e.field = b.e.field
          /\ a.e.check /\ b.e.check
          /\ a.res.success /\ b.res.success )
        => /\ dom[b.res.node].checked
           /\ ActsOf(b.id) = <<>>

\* C3: check_checkbox(sel, want) on a checkbox whose checked state equals want
\* changes nothing and dispatches nothing, and reports success with checked = want
C3_NoopWhenAlreadyInState ==
    [][ ( /\ queue # <<>>
          /\ queue' = Tail(queue)
          /\ Head(queue).op = "check_checkbox"
          /\ Compiles(Head(queue))
          /\ \E cb \in {findCheckbox(dom, jsValue(Head(queue).field)).node} :
                 cb > 0 /\ dom[cb].checked = Head(queue).check )
        => ( /\ dom' = dom
             /\ trace' = trace
             /\ \E r \in ready' :
                  /\ r.id = Head(queue).id
                  /\ r.res.success
                  /\ r.res.checked = Head(queue).check ) ]_vars

\* a call that found the checkbox in the wanted state has run
C3_Witness ==
    \E r \in Ran :
        /\ r.e.op = "check_checkbox"
        /\ r.res.success
        /\ r.res.checked = r.e.check
        /\ ~ r.e.check
        /\ ActsOf(r.id) = <<>>

----------------------------------------------------------------------------
(* select_option, check_radio and the fills on pages with a select or a   *)
(* radio group                                                             *)

MaxChoiceCalls == 2

CountryOptions == <<Opt(sUs, sUSA), Opt(sCa, sCanada)>>

\* <select id="country" name="country"><option value="us">USA</option>
\*                                     <option value="ca">Can</option></select>
pageCountry ==
    << Body, [Select(1, CountryOptions) EXCEPT !.id = sCountry, !.name = sCountry] >>

RadioInput(parent, name, value) ==
    [Input(parent, sRadio) EXCEPT !.name = name, !.value = value]

\* <input type="radio" name="color" value="red">
\* <input type="radio" name="color" value="blue">
pageRadioBare ==
    << Body, RadioInput(1, sColor, sRed), RadioInput(1, sColor, sBlue) >>

\* <fieldset><legend>color</legend>
\*   <label>red<input type="radio" name="color" value="red"></label>
\*   <label>blue<input type="radio" name="color" value="blue"></label></fieldset>
pageRadioLegend ==
    << Body, El("FIELDSET", 1), Text("LEGEND", 2, sColor),
       Text("LABEL", 2, sRed), RadioInput(4, sColor, sRed),
       Text("LABEL", 2, sBlue), RadioInput(6, sColor, sBlue) >>

\* <div><span>color</span>
\*   <div><label>red<input type="radio" ...></label>
\*        <label>blue<input type="radio" ...></label></div></div>
pageRadioWrapped ==
    << Body, El("DIV", 1), Text("SPAN", 2, sColor), El("DIV", 2),
       Text("LABEL", 4, sRed), RadioInput(5, sColor, sRed),
       Text("LABEL", 4, sBlue), RadioInput(7, sColor, sBlue) >>

ChoicePages == {pageCountry, pageRadioBare, pageRadioLegend, pageRadioWrapped}

xpathCountry == idPrefix \o sCountry \o idSuffix

CallSelectOption(selectors, values, bound) ==
    \E sel \in selectors, v \in values :
        Call(Evaluation(NextId, "select_option", sel, v), bound)

CallCheckRadio(selectors, values, bound) ==
    \E sel \in selectors, v \in values :
        Call(Evaluation(NextId, "check_radio", sel, v), bound)

CallFillForm(datas, bound) == \E data \in datas : EnterLoop("fill_form", data, bound)

CallFillByXPath(datas, bound) == \E data \in datas : EnterLoop("fill_by_xpath", data, bound)

ChoiceFillData ==
    { << <<sCountry, sUSA>> >>, << <<sCountry, sGreen>> >>,
      << <<sColor, sBlue>> >>, << <<sColor, sGreen>> >> }

ChoiceXPathData == { << <<xpathCountry, sUSA>> >>, << <<xpathCountry, sGreen>> >> }

InitChoice == InitWith(ChoicePages)

NextChoice ==
    \/ CallSelectOption({sHashCountry, sCountry}, {sUSA, sUs, sGreen, sOne}, MaxChoiceCalls)
    \/ CallCheckRadio({sColor}, {sBlue, sGreen}, MaxChoiceCalls)
    \/ CallFillForm(ChoiceFillData, MaxChoiceCalls)
    \/ CallFillByXPath(ChoiceXPathData, MaxChoiceCalls)
    \/ FillFormStep
    \/ FillByXPathStep
    \/ Evaluate
    \/ Deliver

SpecChoice == InitChoice /\ [][NextChoice]_vars

\* the evaluation that ran last, when nothing is waiting to run
Latest(r) == r.id = Len(submitted) /\ queue = <<>>

Did(id, n, kind) == \E k \in 1..Len(trace) : trace[k] = [eval |-> id, node |-> n, kind |-> kind]

\* C6: select_option(selector, value) on a select that has an option whose
\* text is value, case-insensitively, value being no digit string: the callback
\* gets success=true with that option's text as selectedText, the option is the
\* selected one and a change event was dispatched on the select
C6_SelectByText ==
    \A r \in Ran :
        LET n == findElement(dom, r.e.field).node
        IN  ( /\ r.e.op = "select_option"
              /\ Latest(r)
              /\ n > 0 /\ dom[n].tag = "SELECT"
              /\ ~ IsDigits(r.e.value) )
            => \A k \in 1..Len(dom[n].options) :
                  toLowerCase(dom[n].options[k].text) = toLowerCase(r.e.value)
                  => /\ r.res.kind = "object"
                     /\ r.res.success
                     /\ r.res.selectedText = dom[n].options[k].text
                     /\ dom[n].selectedIndex = k - 1
                     /\ Did(r.id, n, "dispatch change")

\* C30: select_option(selector, v) on a select that has an option whose
\* value is exactly v selects that option, the first of them, and reports
\* success, whatever string v is, digit strings included
C30_SelectByExactValue ==
    \A r \in Ran :
        LET n == findElement(dom, r.e.field).node
        IN  ( /\ r.e.op = "select_option"
              /\ Latest(r)
              /\ n > 0 /\ dom[n].tag = "SELECT" )
            => \A k \in 1..Len(dom[n].options) :
                  ( /\ dom[n].options[k].value = r.e.value
                    /\ \A j \in 1..(k - 1) : dom[n].options[j].value # r.e.value )
                  => /\ r.res.kind = "object"
                     /\ r.res.success
                     /\ r.res.selectedValue = r.e.value
                     /\ dom[n].selectedIndex = k - 1

\* the radios of the group named name
GroupOf(d, name) ==
    {i \in Nodes(d) : d[i].tag = "INPUT" /\ d[i].type = sRadio /\ d[i].name = name}

FallbackMethods == {"first_option", "name_first_match", "group_first_option"}

\* C7: for a radio group of name n with exactly one member of value v,
\* check_radio(n, v) ends with that member checked and no other member checked,
\* and reports success with a method that matched the value or the label,
\* with or without visible text containing n, and inside one wrapper element
C7_RadioByNameAndValue ==
    \A r \in Ran :
        LET group == GroupOf(dom, r.e.field)
            members == {i \in group : dom[i].value = r.e.value}
        IN  ( /\ r.e.op = "check_radio"
              /\ Latest(r)
              /\ Cardinality(members) = 1 )
            => /\ r.res.kind = "object"
               /\ r.res.success
               /\ r.res.method \notin FallbackMethods
               /\ \A i \in group : dom[i].checked <=> i \in members

\* no option of a select, no radio value and no text of page d contains v
Absent(d, v) ==
    \A i \in Nodes(d) :
        /\ ~ includes(toLowerCase(textContent(d, i)), toLowerCase(v))
        /\ d[i].value = undefined \/ ~ includes(toLowerCase(d[i].value), toLowerCase(v))
        /\ \A k \in 1..Len(d[i].options) :
               ~ includes(toLowerCase(d[i].options[k].value), toLowerCase(v))

\* the select or the radio the operation of evaluation e locates, 0 for none
Located(d, e) ==
    LET n == CASE e.op = "select_option" -> findElement(d, e.field).node
               [] e.op = "fill_form" -> findFormField(d, e.field).element
               [] e.op = "fill_by_xpath" -> getElementByXPath(d, e.field)
               [] e.op = "check_radio" ->
                      IF GroupOf(d, e.field) = {} THEN 0
                      ELSE CHOOSE i \in GroupOf(d, e.field) : TRUE
               [] OTHER -> 0
    IN  IF n > 0 /\ (d[n].tag = "SELECT" \/ (isRadioLike(d, n) /\ e.op # "fill_by_xpath"))
        THEN n ELSE 0

\* C8: when the requested value matches no option of the located select
\* (select_option, fill_form, fill_by_xpath) and no member of the located
\* radio group (check_radio, fill_form), the result is success=false with a
\* message, and nothing is selected or clicked as a default
C8_NoDefaultOnUnmatchedValue ==
    \A r \in Ran :
        ( /\ r.e.op \in {"select_option", "fill_form", "fill_by_xpath", "check_radio"}
          /\ Located(dom, r.e) > 0
          /\ IsIdent(r.e.value)
          /\ Absent(dom, r.e.value) )
        => /\ r.res.kind = "object"
           /\ ~ r.res.success
           /\ r.res.message # <<>>
           /\ \A k \in 1..Len(trace) :
                  trace[k].eval = r.id =>
                      trace[k].kind \notin {"click", "set value", "set selectedIndex",
                                            "set checked"}

----------------------------------------------------------------------------
(* fill_form and fill_by_xpath on pages with labelled inputs               *)

MaxFillCalls == 1

sMiddleName == <<"M","i","d","d","l","e"," ">> \o sName

\* <label for="em">Email</label><input type="text" id="em">
pageLabelFor ==
    << Body, [Text("LABEL", 1, sEmail) EXCEPT !.htmlFor = sEm],
       [Input(1, sText) EXCEPT !.id = sEm] >>

\* <div class="form-group"><label>Email</label><input type="text"></div>
\* <input type="text" id="Email">
pageSingleInput ==
    << Body, [El("DIV", 1) EXCEPT !.cls = {"form-group"}], Text("LABEL", 2, sEmail),
       Input(2, sText), [Input(1, sText) EXCEPT !.id = sEmail] >>

\* <div><label>Email</label><input type="text"><input type="text" id="Email"></div>
pageTwoInputs ==
    << Body, El("DIV", 1), Text("LABEL", 2, sEmail),
       Input(2, sText), [Input(2, sText) EXCEPT !.id = sEmail] >>

\* <div><h1>agree</h1><input type="checkbox" style="display:none">
\*      <input type="checkbox"></div>
pageTwoCheckboxes ==
    << Body, El("DIV", 1), Text("H1", 2, sAgree),
       [Input(2, sCheckbox) EXCEPT !.value = sOn, !.display = "none"],
       [Input(2, sCheckbox) EXCEPT !.value = sOn] >>

FillPages == {pageLabelFor, pageSingleInput, pageTwoInputs, pageTwoCheckboxes}

\* field_data dicts, as the sequences of their items
FillData ==
    { <<>>,
      << <<sEmail, sEm>> >>,
      << <<sAgree, sTrue>> >>,
      << <<sMiddleName, sEm>> >>,
      << <<sQuote, sEm>> >>,
      << <<sEmail, sEm>>, <<sMiddleName, sRed>> >>,
      << <<sAgree, sTrue>>, <<sEmail, sRed>>, <<sMiddleName, sEm>> >> }

xpathEm == idPrefix \o sEm \o idSuffix
xpathDivInput ==
    <<"/","h","t","m","l","/","b","o","d","y","/","d","i","v","/","i","n","p","u","t">>

\* //*[@id='em']
xpathEmQuoted == <<"/","/","*","[","@","i","d","=","'">> \o sEm \o <<"'","]">>

FillXPathData ==
    { << <<xpathEm, sEm>> >>,
      << <<xpathDivInput, sEm>>, <<xpathEm, sRed>> >>,
      << <<xpathEmQuoted, sEm>>, <<xpathDivInput, sRed>> >> }

InitFill == InitWith(FillPages)

NextFill ==
    \/ CallFillForm(FillData, MaxFillCalls)
    \/ CallFillByXPath(FillXPathData, MaxFillCalls)
    \/ FillFormStep
    \/ FillByXPathStep
    \/ Evaluate
    \/ Deliver

SpecFill == InitFill /\ [][NextFill]_vars

\* the page runs the fill_form script at the head of the queue
RunsFill ==
    /\ queue # <<>>
    /\ queue' = Tail(queue)
    /\ Head(queue).op = "fill_form"
    /\ Compiles(Head(queue))

Strategy1Methods ==
    {"exact_label_match", "exact_text_match_single_input",
     "exact_text_match_multi_input", "exact_text_match_fallback"}

\* the scores of the candidates a set of strategies proposes for the
\* descriptor of the script at the head of the queue
ScoresOf(strategies) ==
    LET found == foundElements(dom, jsValue(Head(queue).field))
    IN  {found[k].score : k \in {j \in 1..Len(found) : found[j].strategy \in strategies}}

\* the script's result names a Strategy 1 method
WinnerIsStrategy1 ==
    \E r \in ready' :
        /\ r.id = Head(queue).id
        /\ r.res.success
        /\ r.res.method \in Strategy1Methods

\* C1 as stated: whenever Strategy 1 proposes a candidate (score 100, 99, 95
\* or 90) for the descriptor, the winner findFormField returns is a Strategy 1
\* candidate
C1_ExactMatchAlwaysWins ==
    [][ (RunsFill /\ ScoresOf({1}) # {}) => WinnerIsStrategy1 ]_vars

\* C1 amended: a Strategy 1 candidate of score 100 or 99 always wins; one of
\* score 95 or 90 wins unless Strategy 2, 3 or 4 proposes a higher score
C1_ExactMatchWinsUnlessOutscored ==
    [][ (RunsFill /\ ScoresOf({1}) # {})
        => \/ WinnerIsStrategy1
           \/ /\ ScoresOf({1}) \subseteq {95, 90}
              /\ \E other \in ScoresOf({2, 3, 4}) : \A own \in ScoresOf({1}) : other > own
      ]_vars

\* a fill ran whose Strategy 1 candidate of score 99 won over the score 98
\* candidate that Strategy 3 proposed
C1_Witness ==
    \E r \in Ran :
        /\ r.e.op = "fill_form"
        /\ r.res.success
        /\ r.res.method = "exact_text_match_single_input"
        /\ \E k \in 1..Len(foundElements(dom, r.e.field)) :
               /\ foundElements(dom, r.e.field)[k].strategy = 3
               /\ foundElements(dom, r.e.field)[k].score = 98
               /\ foundElements(dom, r.e.field)[k].element # r.res.node

\* C9: when no strategy proposes a candidate for descriptor d, the result of
\* fill_form for that entry is success=false with the message
\* "Could not find field: d", and the script touches no element
C9_NotFoundTouchesNothing ==
    [][ (RunsFill /\ foundElements(dom, Head(queue).field) = <<>>)
        => /\ dom' = dom
           /\ trace' = trace
           /\ \E r \in ready' :
                /\ r.id = Head(queue).id
                /\ r.res.kind = "object"
                /\ ~ r.res.success
                /\ r.res.message = <<"Could not find field: ">> \o Head(queue).field
      ]_vars

\* the fill of "Middle Name" has failed that way
C9_Witness ==
    \E r \in Ran :
        /\ r.e.op = "fill_form"
        /\ r.e.field = sMiddleName
        /\ ~ r.res.success
        /\ r.res.message = <<"Could not find field: ">> \o sMiddleName
        /\ ActsOf(r.id) = <<>>

\* the fill calls among the operations started
Fills == {k \in 1..Len(calls) : calls[k].op \in {"fill_form", "fill_by_xpath"}}

\* the call whose loop is running
Running(k) == k = Len(calls) /\ pc \in {"fill_form", "fill_by_xpath"}

\* the number of entries call k has handed to runJavaScript so far
SubmittedOf(k) ==
    IF Running(k) THEN Len(calls[k].data) - Len(todo) ELSE Len(calls[k].data)

\* the id after the last one call k has used
EndOf(k) == IF k < Len(calls) THEN calls[k + 1].first ELSE Len(submitted) + 1

HandledIds == {handled[h].id : h \in 1..Len(handled)}

\* C10: a fill call with N entries submits exactly N evaluations, one per
\* entry in insertion order, all of them before any of their callbacks is
\* handled, and every callback is handled exactly once
C10_SubmitInOrderHandleOnce ==
    /\ \A k \in Fills :
         /\ EndOf(k) = calls[k].first + SubmittedOf(k)
         /\ \A j \in 1..SubmittedOf(k) :
                submitted[calls[k].first + j - 1] =
                    Evaluation(calls[k].first + j - 1, calls[k].op,
                               calls[k].data[j][1], calls[k].data[j][2])
         /\ Running(k) => \A id \in HandledIds : id < calls[k].first
    /\ \A a \in 1..Len(handled), b \in 1..Len(handled) :
           handled[a].id = handled[b].id => a = b
    /\ \A id \in 1..Len(submitted) :
           Cardinality({1 : k \in {j \in 1..Len(queue) : queue[j].id = id}}
                       \cup {2 : r \in {q \in ready : q.id = id}}
                       \cup {3 : h \in {j \in 1..Len(handled) : handled[j].id = id}}) = 1

\* a fill call of at least two entries is through, and the callback of its
\* second entry was handled before the callback of its first
C10_Witness ==
    \E k \in Fills :
        /\ Len(calls[k].data) >= 2
        /\ pc = "idle"
        /\ {calls[k].first, calls[k].first + 1} \subseteq HandledIds
        /\ \E a \in 1..Len(handled), b \in 1..Len(handled) :
               /\ a < b
               /\ handled[a].id = calls[k].first + 1
               /\ handled[b].id = calls[k].first

\* the ids of the evaluations call k has submitted
IdsOf(k) == calls[k].first .. (EndOf(k) - 1)

\* the evaluation came back without a result or with success=false
HasFailed(r) == r.res.kind = "null" \/ ~ r.res.success

\* the page runs the script of a fill entry, and the entry fails
FailingEvaluation ==
    /\ queue # <<>>
    /\ queue' = Tail(queue)
    /\ Head(queue).op \in {"fill_form", "fill_by_xpath"}
    /\ \E r \in ready' \ ready : r.id = Head(queue).id /\ HasFailed(r)

\* C11: in a fill_form or fill_by_xpath call with several entries, the
\* failure of one entry never keeps the other entries from being submitted
\* (their evaluations are submitted once the loop is over) nor their results
\* from being handled (each is handled, or the application is still there to
\* handle it), and the failing script leaves the DOM as the other entries
\* made it
C11_FailureLeavesOthersAlone ==
    /\ [][ FailingEvaluation => dom' = dom ]_vars
    /\ [](\A k \in Fills :
            \A f \in {r \in Ran : r.id \in IdsOf(k) /\ HasFailed(r)} :
                /\ ~ Running(k) => Cardinality(IdsOf(k)) = Len(calls[k].data)
                /\ \A id \in IdsOf(k) \ {f.id} :
                       id \in HandledIds \/ pc # "aborted")

----------------------------------------------------------------------------
(* fill_form: the element findFormField resolves                           *)

MaxResolveCalls == 1

\* <div><label>agree</label><input type="text"><input type="checkbox"></div>
pageAgreeSection ==
    << Body, El("DIV", 1), Text("LABEL", 2, sAgree),
       [Input(2, sText) EXCEPT !.rect = Box(10, 20)],
       [Input(2, sCheckbox) EXCEPT !.value = sOn, !.rect = Box(20, 30)] >>

\* <div><p>I agree</p><input type="text"><input type="checkbox"></div>
pageAgreeBelow ==
    << Body, El("DIV", 1), Text("P", 2, sIAgree),
       [Input(2, sText) EXCEPT !.rect = Box(10, 20)],
       [Input(2, sCheckbox) EXCEPT !.value = sOn, !.rect = Box(20, 30)] >>

\* <div class="Qr7Oae"><div role="heading">agree</div>
\*   <input type="text" class="whsOnd"><div role="checkbox"></div></div>
pageGoogleAgree ==
    << Body, [El("DIV", 1) EXCEPT !.cls = {"Qr7Oae"}],
       [Text("DIV", 2, sAgree) EXCEPT !.role = sHeading],
       [Input(2, sText) EXCEPT !.cls = {"whsOnd"}, !.rect = Box(10, 20)],
       [El("DIV", 2) EXCEPT !.role = sCheckbox, !.rect = Box(20, 30)] >>

\* <label for="em">Email</label><input type="hidden" id="em">
pageHiddenTarget ==
    << Body, [Text("LABEL", 1, sEmail) EXCEPT !.htmlFor = sEm],
       NotRendered([Input(1, sHidden) EXCEPT !.id = sEm]) >>

\* <div class="Qr7Oae"><h2>Your Email</h2>
\*   <input type="text" class="whsOnd" style="display:none"></div>
pageGoogleHidden ==
    << Body, [El("DIV", 1) EXCEPT !.cls = {"Qr7Oae"}],
       Text("H2", 2, <<"Y","o","u","r"," ">> \o sEmail),
       NotRendered([Input(2, sText) EXCEPT !.cls = {"whsOnd"}]) >>

\* <div><label>Email</label><input type="text" id="a"></div>
\* <div><label>Email</label><input type="text" id="b"></div>
pageTwoSections ==
    << Body, El("DIV", 1), Text("LABEL", 2, sEmail),
       [Input(2, sText) EXCEPT !.id = <<"a">>],
       El("DIV", 1), Text("LABEL", 5, sEmail),
       [Input(5, sText) EXCEPT !.id = <<"b">>] >>

\* <label for="agree">agree</label><input type="checkbox" id="agree">
pageLabelForCheckbox ==
    << Body, [Text("LABEL", 1, sAgree) EXCEPT !.htmlFor = sAgree],
       [Input(1, sCheckbox) EXCEPT !.id = sAgree, !.value = sOn] >>

\* <label for="a"> email </label><input type="text" id="a">
\* <label for="Email">Email</label><input type="text" id="Email">
pageTwoLabels ==
    << Body,
       [Text("LABEL", 1, <<" ">> \o toLowerCase(sEmail) \o <<" ">>) EXCEPT !.htmlFor = <<"a">>],
       [Input(1, sText) EXCEPT !.id = <<"a">>],
       [Text("LABEL", 1, sEmail) EXCEPT !.htmlFor = sEmail],
       [Input(1, sText) EXCEPT !.id = sEmail] >>

\* <div><label>Email</label><input type="checkbox"><input type="text"></div>
pageCheckboxThenText ==
    << Body, El("DIV", 1), Text("LABEL", 2, sEmail),
       [Input(2, sCheckbox) EXCEPT !.value = sOn, !.rect = Box(10, 20)],
       [Input(2, sText) EXCEPT !.rect = Box(20, 30)] >>

\* <form><div><label>Email</label><input type="text"></div>
\*       <div><label>Middle name</label><input type="text"></div></form>
pageFormRows ==
    << Body, El("FORM", 1),
       El("DIV", 2), Text("LABEL", 3, sEmail),
       [Input(3, sText) EXCEPT !.rect = Box(10, 20)],
       El("DIV", 2), Text("LABEL", 6, sMiddleName),
       [Input(6, sText) EXCEPT !.rect = Box(30, 40)] >>

\* <div>(fifteen empty spans)<div></div><label>Email</label>
\*      <input type="text"></div>
pageCrowded ==
    << Body, [El("DIV", 1) EXCEPT !.extraChildren = MaxContainerChildren],
       El("DIV", 2), Text("LABEL", 2, sEmail),
       [Input(2, sText) EXCEPT !.rect = Box(10, 20)] >>

\* <h2>agree</h2>
\* <div><label>Email</label><input type="text"><div role="checkbox"></div></div>
pageHeadingOutside ==
    << Body, Text("H2", 1, sAgree),
       El("DIV", 1), Text("LABEL", 3, sEmail),
       [Input(3, sText) EXCEPT !.rect = Box(10, 20)],
       [El("DIV", 3) EXCEPT !.role = sCheckbox, !.rect = Box(20, 30)] >>

\* <p>First</p><div style="height:0"><span>Email</span></div>
\* <input type="text"><input type="text">
pagePositional ==
    << Body, Text("P", 1, <<"F","i","r","s","t">>),
       [El("DIV", 1) EXCEPT !.rect = NoRect], Text("SPAN", 3, sEmail),
       [Input(1, sText) EXCEPT !.rect = Box(10, 20)],
       [Input(1, sText) EXCEPT !.rect = Box(20, 30)] >>

\* the same with one input only
pagePositionalShort ==
    << Body, Text("P", 1, <<"F","i","r","s","t">>),
       [El("DIV", 1) EXCEPT !.rect = NoRect], Text("SPAN", 3, sEmail),
       [Input(1, sText) EXCEPT !.rect = Box(10, 20)] >>

ResolvePages ==
    {pageAgreeSection, pageAgreeBelow, pageGoogleAgree, pageHiddenTarget,
     pageGoogleHidden, pageTwoSections, pageLabelFor, pageSingleInput,
     pageTwoInputs, pageTwoCheckboxes, pageLabelForCheckbox, pageTwoLabels,
     pageCheckboxThenText, pageFormRows, pageCrowded, pageHeadingOutside,
     pagePositional, pagePositionalShort}

ResolveData ==
    { << <<sAgree, sTrue>> >>,
      << <<sEmail, sEm>> >>,
      << <<sMiddleName, sEm>> >> }

InitResolve == InitWith(ResolvePages)

NextResolve ==
    \/ CallFillForm(ResolveData, MaxResolveCalls)
    \/ FillFormStep
    \/ Evaluate
    \/ Deliver

SpecResolve == InitResolve /\ [][NextResolve]_vars

\* the descriptor of the fill_form script at the head of the queue
Descriptor == jsValue(Head(queue).field)

\* the element that script resolves and the method it reports, when it
\* resolves one
Resolves(n, method) ==
    \E r \in ready' \ ready :
        /\ r.id = Head(queue).id
        /\ r.res.kind = "object"
        /\ r.res.success
        /\ r.res.node = n
        /\ r.res.method = method

isTextInput(d, i) == d[i].tag = "INPUT" /\ d[i].type = sText
isChoiceInput(d, i) == ~ notRadioOrCheckbox(d, i)

\* the inputs offer both a text input and a radio or checkbox
OffersBoth(d, inputs) ==
    /\ \E k \in 1..Len(inputs) : isTextInput(d, inputs[k])
    /\ \E k \in 1..Len(inputs) : isChoiceInput(d, inputs[k])

\* the inputs among which a strategy picked candidate c: the section's inputs
\* for the exact match, the relevant inputs for the proximity match, the
\* container's inputs for the platform pattern
InputsBehind(d, fieldText, c) ==
    {inputsOf(d, findCommonContainer(d, exactMatches(d, fieldText)[k])) :
        k \in {j \in 1..Len(exactMatches(d, fieldText)) :
                  sectionCandidates(d, exactMatches(d, fieldText)[j]) = <<c>>}}
    \cup
    {relevantInputs(d, el, inputsOf(d, findCommonContainer(d, el))) :
        el \in {e \in Nodes(d) :
                  /\ isTextTag(d, e) \/ d[e].role = sHeading
                  /\ isVisible(d, e)
                  /\ includes(toLowerCase(trim(textContent(d, e))), toLowerCase(fieldText))
                  /\ proximityCandidates(d, e, toLowerCase(fieldText)) = <<c>>}}
    \cup
    {googleInputsOf(d, googleContainer(d, googleHeadings(d, toLowerCase(fieldText))[k])) :
        k \in {j \in 1..Len(googleHeadings(d, toLowerCase(fieldText))) :
                  googleCandidates(d, googleHeadings(d, toLowerCase(fieldText))[j],
                                   toLowerCase(fieldText)) = <<c>>}}

\* C12 as stated: for a descriptor that matches the boolean-keyword pattern,
\* when the inputs among which the winning strategy (exact match, proximity,
\* platform pattern) picked offer both a text input and a radio or checkbox,
\* the element fill_form resolves is the radio or checkbox
C12_BooleanResolvesChoice ==
    [][ (RunsFill /\ isBooleanField(toLowerCase(Descriptor)))
        => \A n \in Nodes(dom) :
             (/\ \E m \in {"exact_text_match_multi_input", "positioned_field",
                           "google_form_pattern"} : Resolves(n, m)
              /\ \E inputs \in InputsBehind(dom, Descriptor, findFormField(dom, Descriptor)) :
                     OffersBoth(dom, inputs))
             => isChoiceInput(dom, n)
      ]_vars

\* the first candidate of the platform pattern strategy
firstGoogle(found) ==
    first(SelectSeq([k \in 1..Len(found) |-> k], LAMBDA k : found[k].strategy = 4))

\* C12 amended: for a boolean descriptor, the platform pattern strategy
\* proposes for every matching heading whose container offers both a text
\* input and a radio or checkbox the first radio or checkbox of the container,
\* and when the platform pattern match wins, the element fill_form resolves is
\* the first such proposal
C12_BooleanPatternResolvesChoice ==
    [][ (RunsFill /\ isBooleanField(toLowerCase(Descriptor)))
        => LET fieldLower == toLowerCase(Descriptor)
               headings == googleHeadings(dom, fieldLower)
               found == foundElements(dom, Descriptor)
           IN  /\ \A k \in 1..Len(headings) :
                    LET googleInputs == googleInputsOf(dom, googleContainer(dom, headings[k]))
                    IN  OffersBoth(dom, googleInputs)
                        => \E c \in {found[j] : j \in 1..Len(found)} :
                             /\ c.method = "google_form_pattern"
                             /\ c.score = 96
                             /\ isChoiceInput(dom, c.element)
                             /\ c.element = first(SelectSeq(googleInputs,
                                                LAMBDA i : isChoiceInput(dom, i)))
               /\ \A n \in Nodes(dom) :
                    Resolves(n, "google_form_pattern")
                    => /\ firstGoogle(found) > 0
                       /\ n = found[firstGoogle(found)].element
      ]_vars

\* a fill with a boolean descriptor has resolved, by the platform pattern, the
\* checkbox of a container whose first input is a text input
C12_Witness ==
    \E r \in Ran :
        /\ r.e.op = "fill_form"
        /\ isBooleanField(toLowerCase(r.e.field))
        /\ r.res.kind = "object"
        /\ r.res.success
        /\ r.res.method = "google_form_pattern"
        /\ isChoiceInput(dom, r.res.node)
        /\ \E i \in 1..(r.res.node - 1) :
               isTextInput(dom, i) /\ isGoogleInput(dom, i) /\ dom[i].parent = dom[r.res.node].parent

----------------------------------------------------------------------------
(* detect_form_fields and map_form_fields on the same page                 *)

MaxFieldCalls == 2

\* <input type="hidden" name="color">
\* <input type="text" name="em" style="display:none">
\* <input type="text" id="Email" style="opacity:0">
\* <input type="text" name="country" style="position:fixed">
\* <label>agree<input type="checkbox" required></label>
\* <textarea placeholder="Name"></textarea>
pageHiddenInputs ==
    << Body,
       NotRendered([Input(1, sHidden) EXCEPT !.name = sColor]),
       NotRendered([Input(1, sText) EXCEPT !.name = sEm]),
       [Input(1, sText) EXCEPT !.id = sEmail, !.opacity = "0"],
       [Input(1, sText) EXCEPT !.name = sCountry, !.offsetParent = FALSE],
       Text("LABEL", 1, sAgree),
       [Input(6, sCheckbox) EXCEPT !.value = sOn, !.required = TRUE],
       [El("TEXTAREA", 1) EXCEPT !.type = sTextarea, !.value = <<>>, !.placeholder = sName] >>

\* <label><textarea name="name" aria-label="Email">red</textarea></label>
pageWrappedTextarea ==
    << Body, El("LABEL", 1),
       [El("TEXTAREA", 2) EXCEPT !.type = sTextarea, !.text = <<"r","e","d">>,
                                 !.value = <<"r","e","d">>, !.name = sName,
                                 !.ariaLabel = sEmail] >>

FieldPages ==
    {pageHiddenInputs, pageCountry, pageRadioLegend, pageLabelFor, pageSingleInput,
     pageWrappedTextarea}

DetectFields == Call(Evaluation(NextId, "detect_form_fields", null, null), MaxFieldCalls)
MapFields == Call(Evaluation(NextId, "map_form_fields", null, null), MaxFieldCalls)

InitFields == InitWith(FieldPages)
NextFields == DetectFields \/ MapFields \/ Evaluate \/ Deliver
SpecFields == InitFields /\ [][NextFields]_vars

\* the results of the evaluations of one operation that have run
ResultsOf(op) == {r.res : r \in {q \in Ran : q.e.op = op /\ q.res.kind = "object"}}

\* the labels of the document written for an id, in document order
LabelsWithFor(d, id) ==
    SelectSeq(Idx(d), LAMBDA l : d[l].tag = "LABEL" /\ d[l].htmlFor = id)

\* the first text of a sequence that is not empty, the empty text when all are
RECURSIVE FirstNonEmpty(_)
FirstNonEmpty(texts) ==
    IF texts = <<>> THEN <<>>
    ELSE IF Head(texts) # <<>> THEN Head(texts)
    ELSE FirstNonEmpty(Tail(texts))

\* the text of the label written for the element's id
LabelForText(d, n) ==
    IF d[n].id = <<>> \/ LabelsWithFor(d, d[n].id) = <<>> THEN <<>>
    ELSE trim(textContent(d, LabelsWithFor(d, d[n].id)[1]))

\* the text of the label around the element, the form controls removed
WrappingLabelText(d, n) ==
    IF closest(d, n, {l \in Nodes(d) : d[l].tag = "LABEL"}) = 0 THEN <<>>
    ELSE trim(textWithoutInputs(d, closest(d, n, {l \in Nodes(d) : d[l].tag = "LABEL"}),
                                closest(d, n, {l \in Nodes(d) : d[l].tag = "LABEL"})))

\* C25: the label resolver returns the first non-empty text among the
\* label-for text, the wrapping label's text with the form controls removed,
\* the nearby text, aria-label, placeholder, name and id, and the empty
\* text only when all of them are empty: so for every field that
\* detect_form_fields and map_form_fields report
C25_LabelIsFirstNonEmpty ==
    \A res \in ResultsOf("detect_form_fields") \cup ResultsOf("map_form_fields") :
        \A k \in 1..Len(res.fields) :
            res.fields[k].label =
                FirstNonEmpty(<< LabelForText(dom, res.fields[k].node),
                                 WrappingLabelText(dom, res.fields[k].node),
                                 nearbyLabel(dom, res.fields[k].node),
                                 dom[res.fields[k].node].ariaLabel,
                                 dom[res.fields[k].node].placeholder,
                                 dom[res.fields[k].node].name,
                                 dom[res.fields[k].node].id >>)

\* the attributes detect_form_fields gives a field
DetectedAttributes ==
    {"label", "name", "id", "type", "required", "placeholder", "options",
     "radioOptions", "hasValue", "selector"}

\* C13: the page staying as it is, detect_form_fields followed by
\* map_form_fields returns the same number of fields in the same order, with
\* the same label, type, selector, name, id, required, placeholder, options
\* and radioOptions at each position; map_form_fields adds xpath and example
\* and removes no attribute
C13_MapRefinesDetect ==
    \A det \in ResultsOf("detect_form_fields"), map \in ResultsOf("map_form_fields") :
        /\ det.success /\ map.success
        /\ Len(map.fields) = Len(det.fields)
        /\ \A k \in 1..Len(det.fields) :
             /\ map.fields[k].node = det.fields[k].node
             /\ \A a \in DetectedAttributes : map.fields[k][a] = det.fields[k][a]
             /\ det.fields[k].xpath = <<>> /\ det.fields[k].example = <<>>
             /\ map.fields[k].xpath # <<>> /\ map.fields[k].example # <<>>

\* both operations have run on a page with fields, among them hidden ones,
\* detect_form_fields first
C13_Witness ==
    /\ dom = pageHiddenInputs
    /\ Len(submitted) = 2
    /\ submitted[1].op = "detect_form_fields"
    /\ submitted[2].op = "map_form_fields"
    /\ \E det \in ResultsOf("detect_form_fields"), map \in ResultsOf("map_form_fields") :
           Len(det.fields) >= 2 /\ Len(map.fields) >= 2

----------------------------------------------------------------------------
(* fill_form and fill_by_xpath: what they do to the element                *)

MaxInteractCalls == 1

sLowerName == toLowerCase(sName)

\* <label for="em">Email</label><input type="text" id="em" value="red">
\* <label for="name">Name</label><textarea id="name"></textarea>
\* <label for="country">country</label><select id="country">...</select>
\* <label for="agree">agree</label><input type="checkbox" id="agree">
pageProfile ==
    << Body,
       [Text("LABEL", 1, sEmail) EXCEPT !.htmlFor = sEm],
       [Input(1, sText) EXCEPT !.id = sEm, !.value = sRed],
       [Text("LABEL", 1, sName) EXCEPT !.htmlFor = sLowerName],
       [El("TEXTAREA", 1) EXCEPT !.type = sTextarea, !.id = sLowerName, !.value = <<>>],
       [Text("LABEL", 1, sCountry) EXCEPT !.htmlFor = sCountry],
       [Select(1, CountryOptions) EXCEPT !.id = sCountry],
       [Text("LABEL", 1, sAgree) EXCEPT !.htmlFor = sAgree],
       [Input(1, sCheckbox) EXCEPT !.id = sAgree, !.value = sOn] >>

\* the same page, the checkbox checked and Canada selected
pageProfileChecked ==
    [pageProfile EXCEPT ![9].checked = TRUE, ![7].selectedIndex = 1, ![7].value = sCa]

\* the same page, the options of the select being
\* <option value="">Can</option><option value="">USA</option>
pageProfileNoValues ==
    [pageProfile EXCEPT ![7] = [Select(1, <<Opt(<<>>, sCanada), Opt(<<>>, sUSA)>>)
                                   EXCEPT !.id = sCountry]]

InteractPages == {pageProfile, pageProfileChecked, pageProfileNoValues}

\* the descriptors with the values given to them
InteractEntries ==
    { <<sEmail, sBlue>>, <<sName, sBlue>>,
      <<sCountry, sUSA>>, <<sCountry, <<"C","A">>>>, <<sCountry, sGreen>>,
      <<sAgree, sTrue>>, <<sAgree, <<"O","n">>>>, <<sAgree, sNo>>, <<sAgree, sUnchecked>>,
      <<sAgree, sBlue>> }

\* the id each descriptor's label is for
IdFor(descriptor) ==
    CASE descriptor = sEmail -> sEm
      [] descriptor = sName -> sLowerName
      [] OTHER -> descriptor

InteractData == { << e >> : e \in InteractEntries }

InteractXPathData ==
    { << <<idPrefix \o IdFor(e[1]) \o idSuffix, e[2]>> >> : e \in InteractEntries }

InitInteract == InitWith(InteractPages)

NextInteract ==
    \/ CallFillForm(InteractData, MaxInteractCalls)
    \/ CallFillByXPath(InteractXPathData, MaxInteractCalls)
    \/ FillFormStep
    \/ FillByXPathStep
    \/ Evaluate
    \/ Deliver

SpecInteract == InitInteract /\ [][NextInteract]_vars

\* the page runs the script of a fill entry
RunsEntry ==
    /\ queue # <<>>
    /\ queue' = Tail(queue)
    /\ Head(queue).op \in {"fill_form", "fill_by_xpath"}

\* the result of that script
ResultOfEntry == {r.res : r \in {q \in ready' \ ready : q.id = Head(queue).id}}

\* what that script did, in order, and what it did to element n
DoneByEntry == SelectSeq(trace', LAMBDA a : a.eval = Head(queue).id)
DoneTo(n) == SelectSeq(DoneByEntry, LAMBDA a : a.node = n)

KindsOf(acts) == [k \in 1..Len(acts) |-> acts[k].kind]

\* the events among what was done
EventsOf(acts) ==
    KindsOf(SelectSeq(acts, LAMBDA a :
        a.kind \in {"dispatch input", "dispatch change", "dispatch blur"}))

\* a text input or a textarea, not given the role of a radio or checkbox
isTextControl(d, n) ==
    /\ n > 0
    /\ (d[n].tag = "INPUT" /\ d[n].type = sText) \/ d[n].tag = "TEXTAREA"
    /\ d[n].role \notin {sRadio, sCheckbox}

\* C14: a successful fill of a text input or textarea with value v focuses
\* the element and then does to it exactly: clear the value, dispatch input,
\* set the value to v, dispatch input, dispatch input, dispatch change,
\* dispatch blur; the script touches no other element and the element's
\* value is v at the end
C14_TextFillEventOrder ==
    [][ RunsEntry
        => \A res \in ResultOfEntry :
             (res.success /\ isTextControl(dom, res.node))
             => /\ DoneTo(res.node) = DoneByEntry
                /\ EventsOf(DoneByEntry) =
                       <<"dispatch input", "dispatch input", "dispatch input",
                         "dispatch change", "dispatch blur">>
                /\ SelectSeq(KindsOf(DoneByEntry), LAMBDA k : k # "scrollIntoView") =
                       <<"focus", "clear value", "dispatch input", "set value",
                         "dispatch input", "dispatch input", "dispatch change",
                         "dispatch blur">>
                /\ dom'[res.node].value = Head(queue).value
      ]_vars

\* fill_form has filled the text input, which held the value "red", with
\* "blue"
C14_Witness ==
    \E r \in Ran :
        /\ r.e.op = "fill_form"
        /\ r.res.kind = "object"
        /\ r.res.success
        /\ isTextControl(dom, r.res.node)
        /\ dom[r.res.node].tag = "INPUT"
        /\ r.e.value = sBlue
        /\ dom[r.res.node].value = sBlue
        /\ EventsOf(ActsOf(r.id)) =
               <<"dispatch input", "dispatch input", "dispatch input",
                 "dispatch change", "dispatch blur">>


\* the element the script at the head of the queue acts on, 0 when it finds none
TargetOfEntry ==
    IF Head(queue).op = "fill_form"
    THEN findFormField(dom, jsValue(Head(queue).field)).element
    ELSE max(0, getElementByXPath(dom, jsValue(Head(queue).field)))

\* the positions of the options whose text contains v or whose value equals
\* v, letter case apart
MatchingOptions(opts, v) ==
    {k \in 1..Len(opts) :
        \/ includes(toLowerCase(opts[k].text), toLowerCase(v))
        \/ toLowerCase(opts[k].value) = toLowerCase(v)}

Least(S) == CHOOSE k \in S : \A j \in S : k <= j

\* C15: in the select branch of fill_form and fill_by_xpath the first option,
\* in option order, whose text contains the value or whose value equals it
\* (case-insensitive) becomes the selected option and change is dispatched;
\* when no option matches, the result is a failure with a message, the
\* selected option is unchanged and no input, change or blur event is
\* dispatched on the select
C15_SelectFirstMatchingOption ==
    [][ (RunsEntry /\ Compiles(Head(queue)) /\ TargetOfEntry > 0
         /\ dom[TargetOfEntry].tag = "SELECT")
        => LET select == TargetOfEntry
               matching == MatchingOptions(dom[select].options, jsValue(Head(queue).value))
           IN  \A res \in ResultOfEntry :
                 IF matching # {}
                 THEN /\ res.success
                      /\ dom'[select].selectedIndex = Least(matching) - 1
                      /\ \E k \in 1..Len(DoneTo(select)) :
                             DoneTo(select)[k].kind = "dispatch change"
                 ELSE /\ res.kind = "object"
                      /\ ~ res.success
                      /\ res.message # <<>>
                      /\ dom'[select].selectedIndex = dom[select].selectedIndex
                      /\ EventsOf(DoneTo(select)) = <<>>
      ]_vars


\* the script at the head of the queue acts on an <input type="checkbox">
FillsCheckbox ==
    /\ RunsEntry
    /\ Compiles(Head(queue))
    /\ TargetOfEntry > 0
    /\ dom[TargetOfEntry].tag = "INPUT"
    /\ dom[TargetOfEntry].type = sCheckbox

\* the checked state the value asks for, given the state checked
TargetState(v, checked) ==
    IF toLowerCase(v) \in {sTrue, sYes, sChecked, sOn} THEN TRUE
    ELSE IF toLowerCase(v) \in {sFalse, sNo, sUnchecked, sOff} THEN FALSE
    ELSE ~ checked

ClicksOn(n) == Len(SelectSeq(DoneTo(n), LAMBDA a : a.kind = "click"))

\* C16 as stated: a value in {true, yes, checked, on} leaves the checkbox
\* checked, one in {false, no, unchecked, off} leaves it unchecked, any other
\* toggles it by one click; when the checked state already equals the target
\* there is no click and no event is dispatched on the element
C16_CheckboxNoopWithoutEvents ==
    [][ FillsCheckbox
        => LET box == TargetOfEntry
               target == TargetState(jsValue(Head(queue).value), dom[box].checked)
           IN  /\ dom'[box].checked = target
               /\ ClicksOn(box) = IF dom[box].checked = target THEN 0 ELSE 1
               /\ dom[box].checked = target => EventsOf(DoneTo(box)) = <<>>
      ]_vars

\* C16 amended: the checked state ends as the value asks, by one click when
\* it differs from the target and by none when it already equals it; in both
\* cases the final events input, change and blur, and no others, are
\* dispatched on the checkbox
C16_CheckboxClicksOnlyToChange ==
    [][ FillsCheckbox
        => LET box == TargetOfEntry
               target == TargetState(jsValue(Head(queue).value), dom[box].checked)
           IN  /\ dom'[box].checked = target
               /\ ClicksOn(box) = IF dom[box].checked = target THEN 0 ELSE 1
               /\ EventsOf(DoneTo(box)) =
                      <<"dispatch input", "dispatch change", "dispatch blur">>
               /\ \A res \in ResultOfEntry : res.success
      ]_vars

\* a fill with the value "true" has run on the checkbox that was checked: it
\* is still checked, was not clicked, and the final events were dispatched
C16_Witness ==
    \E r \in Ran :
        /\ r.e.op \in {"fill_form", "fill_by_xpath"}
        /\ r.e.value = sTrue
        /\ r.res.kind = "object"
        /\ r.res.success
        /\ dom[r.res.node].type = sCheckbox
        /\ pageProfileChecked[r.res.node].checked
        /\ dom[r.res.node].checked
        /\ KindsOf(SelectSeq(ActsOf(r.id), LAMBDA a : a.kind \notin {"scrollIntoView", "focus"})) =
               <<"dispatch input", "dispatch change", "dispatch blur">>


\* display none, a box of no size, or type=hidden
isHiddenInput(d, n) ==
    \/ d[n].display = "none"
    \/ d[n].rect.bottom = d[n].rect.top
    \/ d[n].rect.right = d[n].rect.left
    \/ d[n].type = sHidden

\* C17: every candidate findFormField proposes, and so every element
\* fill_form scrolls to, focuses and interacts with, passes the script's
\* visibility check when it is resolved; a hidden input (display none,
\* zero-size box, type=hidden) is never the resolved element
C17_OnlyVisibleCandidates ==
    [][ RunsFill
        => /\ \A k \in 1..Len(foundElements(dom, Descriptor)) :
                isVisible(dom, foundElements(dom, Descriptor)[k].element)
           /\ \A k \in 1..Len(DoneByEntry) :
                /\ isVisible(dom, DoneByEntry[k].node)
                /\ ~ isHiddenInput(dom, DoneByEntry[k].node)
      ]_vars


\* the five conditions: displayed, not hidden, not fully transparent, laid
\* out under an offsetParent, and a box of positive width and height
AllFiveConditions(d, n) ==
    /\ d[n].display # "none"
    /\ d[n].visibility # "hidden"
    /\ d[n].opacity # "0"
    /\ d[n].offsetParent
    /\ d[n].rect.right - d[n].rect.left > 0
    /\ d[n].rect.bottom - d[n].rect.top > 0

\* C18: each isVisible of the scripts (detect_form_fields, map_form_fields,
\* fill_form, check_radio) is true of an element exactly when the five
\* conditions hold, so that all the operations agree on every element
C18_IsVisibleAllFive ==
    \A n \in Nodes(dom) :
        /\ isVisibleLaidOut(dom, n) = AllFiveConditions(dom, n)
        /\ isVisible(dom, n) = AllFiveConditions(dom, n)


\* C19: the winner findFormField returns has the maximal score among the
\* candidates proposed in the call; among candidates of equal score it is the
\* one of the lowest-numbered strategy and, within the strategy, the one
\* proposed first; when no candidate was proposed it is the not-found value
\* (element null, method 'none', score 0), and fill_form reports the failure
C19_WinnerIsFirstOfMaximalScore ==
    [][ RunsFill
        => LET found == foundElements(dom, Descriptor)
               winner == findFormField(dom, Descriptor)
           IN  IF found = <<>>
               THEN /\ winner.element = 0 /\ winner.method = "none" /\ winner.score = 0
                    /\ \A res \in ResultOfEntry : ~ res.success
               ELSE /\ \E k \in 1..Len(found) :
                         /\ found[k] = winner
                         /\ \A j \in 1..Len(found) : found[j].score <= winner.score
                         /\ \A j \in 1..(k - 1) : found[j].score < winner.score
                    /\ \A j \in 1..Len(found) :
                         found[j].score = winner.score => found[j].strategy >= winner.strategy
                    /\ \A res \in ResultOfEntry :
                         /\ res.success
                         /\ res.node = winner.element
                         /\ res.method = winner.method
                         /\ res.score = winner.score
      ]_vars

\* a fill has resolved the first of two inputs that were proposed with the
\* same, maximal score
C19_Witness ==
    \E r \in Ran :
        /\ r.e.op = "fill_form"
        /\ r.res.kind = "object"
        /\ r.res.success
        /\ \E a \in 1..Len(foundElements(pageTwoSections, r.e.field)) :
           \E b \in 1..Len(foundElements(pageTwoSections, r.e.field)) :
               /\ a < b
               /\ foundElements(pageTwoSections, r.e.field)[a].element = r.res.node
               /\ foundElements(pageTwoSections, r.e.field)[b].element # r.res.node
               /\ foundElements(pageTwoSections, r.e.field)[a].score = r.res.score
               /\ foundElements(pageTwoSections, r.e.field)[b].score = r.res.score
        /\ dom[r.res.node].value = r.e.value
        /\ \A n \in Nodes(dom) \ {r.res.node} : dom[n] = pageTwoSections[n]


\* the visible labels with a for attribute whose trimmed text is the
\* descriptor, letter case apart, and whose target is an input element, in
\* document order
LabelsFor(d, fieldText) ==
    SelectSeq(Idx(d), LAMBDA l :
        /\ d[l].tag = "LABEL"
        /\ isVisible(d, l)
        /\ d[l].htmlFor # <<>>
        /\ toLowerCase(trim(textContent(d, l))) = toLowerCase(fieldText)
        /\ isInputElement(d, getElementById(d, d[l].htmlFor)))

\* findFormField returns the target of the first of these labels, the only
\* candidate proposed, and the script acts on that element alone
ResolvesLabelTarget(target) ==
    /\ findFormField(dom, Descriptor) = Candidate(target, "exact_label_match", 100, 1)
    /\ foundElements(dom, Descriptor) = <<Candidate(target, "exact_label_match", 100, 1)>>
    /\ DoneTo(target) = DoneByEntry
    /\ DoneByEntry # <<>>
    /\ \A res \in ResultOfEntry :
           res.success => (res.node = target /\ res.method = "exact_label_match"
                           /\ res.score = 100)

ExactTextMatches(d, fieldText) ==
    SelectSeq(Idx(d), LAMBDA e :
        /\ isTextTag(d, e) \/ d[e].role = sHeading
        /\ isVisible(d, e)
        /\ toLowerCase(trim(textContent(d, e))) = toLowerCase(fieldText))

\* the inputs of a section that are neither radio nor checkbox, by type or role
PlainInputs(d, inputs) ==
    SelectSeq(inputs, LAMBDA i :
        /\ d[i].type # sRadio /\ d[i].type # sCheckbox
        /\ d[i].role # sRadio /\ d[i].role # sCheckbox)

\* what C21 says Strategy 1 proposes from a section with these inputs
SectionPick(d, inputs) ==
    IF inputs = <<>> THEN <<>>
    ELSE IF Len(inputs) = 1
    THEN << [element |-> inputs[1], method |-> "exact_text_match_single_input",
             score |-> 99, strategy |-> 1] >>
    ELSE IF PlainInputs(d, inputs) # <<>>
    THEN << [element |-> PlainInputs(d, inputs)[1],
             method |-> "exact_text_match_multi_input", score |-> 95, strategy |-> 1] >>
    ELSE << [element |-> inputs[1], method |-> "exact_text_match_fallback",
             score |-> 90, strategy |-> 1] >>

\* C21: for an exact-text match that is not a label for a valid target,
\* Strategy 1 proposes from the match's field section exactly one candidate:
\* the sole input at 99, else the first input that is neither radio nor
\* checkbox at 95, else the first input at 90; and nothing when the section
\* has no input.  When no label returns at once, these proposals, in the
\* order of the matches, are all that Strategy 1 leaves in foundElements
C21_SectionPick ==
    [][ RunsFill
        => LET ms == ExactTextMatches(dom, Descriptor)
               picks == [k \in 1..Len(ms) |->
                            SectionPick(dom, inputsOf(dom, findCommonContainer(dom, ms[k])))]
           IN  /\ \A k \in 1..Len(ms) :
                    ~ labelForInput(dom, ms[k])
                    => /\ sectionCandidates(dom, ms[k]) = picks[k]
                       /\ Len(picks[k]) <= 1
               /\ LabelsFor(dom, Descriptor) = <<>>
                  => SelectSeq(foundElements(dom, Descriptor), LAMBDA c : c.strategy = 1)
                         = Flatten(picks)
      ]_vars

\* a fill has resolved, by exact_text_match_multi_input at 95, the text input
\* that follows a checkbox in the section of its label
C21_Witness ==
    \E r \in Ran :
        /\ r.e.op = "fill_form"
        /\ r.res.kind = "object"
        /\ r.res.success
        /\ r.res.method = "exact_text_match_multi_input"
        /\ r.res.score = 95
        /\ r.res.node = 5
        /\ pageCheckboxThenText[4].type = sCheckbox
        /\ dom = [pageCheckboxThenText EXCEPT ![5].value = r.e.value]


\* an element and its ancestors below the body, the nearest first
RECURSIVE SelfAndAncestors(_, _)
SelfAndAncestors(d, n) ==
    IF n = 0 \/ d[n].tag = "BODY" THEN <<>>
    ELSE <<n>> \o SelfAndAncestors(d, d[n].parent)

isExplicitContainer(d, c) ==
    \/ d[c].tag \in {"FORM", "FIELDSET"}
    \/ d[c].role = sGroup
    \/ d[c].cls \cap {"form-group", "form-field", "field-container", "input-group"} # {}

isQuestionContainer(d, c) ==
    d[c].cls \cap {"Qr7Oae", "freebirdFormviewerViewItemsItemItem", "geS5n"} # {}

holdsTextAndInput(d, c) ==
    /\ trim(textContent(d, c)) # <<>>
    /\ \E i \in DOMAIN d :
          /\ IsDescendant(d, i, c)
          /\ d[i].tag \in {"INPUT", "TEXTAREA", "SELECT"} \/ d[i].role = sRadio
    /\ childCount(d, c) < 15

holdsFormControl(d, c) ==
    \E i \in DOMAIN d :
        /\ IsDescendant(d, i, c)
        /\ d[i].tag \in {"INPUT", "TEXTAREA", "SELECT"}

\* the first element of a chain of the given kinds, 0 when there is none
NearestExplicit(d, chain) ==
    first(SelectSeq(chain, LAMBDA c : isExplicitContainer(d, c)))

NearestOfAnyKind(d, chain) ==
    first(SelectSeq(chain, LAMBDA c :
        \/ isExplicitContainer(d, c)
        \/ isQuestionContainer(d, c)
        \/ holdsTextAndInput(d, c)))

NearestWithControl(d, chain) ==
    first(SelectSeq(chain, LAMBDA c : holdsFormControl(d, c)))

\* C22 as stated: findCommonContainer(el) returns the nearest ancestor-or-self
\* that is an explicit container (form, fieldset, role=group or a form-group
\* class) whenever el has one
C22_ExplicitContainerFirst ==
    [][ RunsFill
        => \A e \in DOMAIN dom :
              NearestExplicit(dom, SelfAndAncestors(dom, e)) > 0
              => findCommonContainer(dom, e)
                     = NearestExplicit(dom, SelfAndAncestors(dom, e))
      ]_vars

\* C22, amended: findCommonContainer(el) returns the nearest of el and its
\* ancestors below the body that is an explicit container, a framework
\* question container, or holds non-empty text, an input and fewer than 15
\* children, whichever of the three kinds it is; when there is none, the
\* nearest of them that contains a form control; and else el's parent
C22_NearestContainerOfAnyKind ==
    [][ RunsFill
        => \A e \in DOMAIN dom :
              findCommonContainer(dom, e)
                = IF NearestOfAnyKind(dom, SelfAndAncestors(dom, e)) > 0
                  THEN NearestOfAnyKind(dom, SelfAndAncestors(dom, e))
                  ELSE IF NearestWithControl(dom, SelfAndAncestors(dom, e)) > 0
                  THEN NearestWithControl(dom, SelfAndAncestors(dom, e))
                  ELSE dom[e].parent
      ]_vars

\* a fill of the second row of a form has been resolved in the row's own
\* div, the sole input of that div at 99, and not in the form around the rows
C22_Witness ==
    \E r \in Ran :
        /\ r.e.op = "fill_form"
        /\ r.res.kind = "object"
        /\ r.res.success
        /\ r.res.method = "exact_text_match_single_input"
        /\ r.res.node = 8
        /\ dom = [pageFormRows EXCEPT ![8].value = r.e.value]
        /\ NearestExplicit(pageFormRows, SelfAndAncestors(pageFormRows, 7)) = 2
        /\ findCommonContainer(pageFormRows, 7) = 6


\* the candidates of one strategy among those of a call
OfStrategy(found, n) == SelectSeq(found, LAMBDA c : c.strategy = n)

\* a visible heading-like element whose text contains the descriptor
isMatchingHeading(d, h, fieldLower) ==
    /\ \/ d[h].cls \cap {"M7eMe", "freebirdFormviewerViewItemsItemItemTitle"} # {}
       \/ d[h].role = sHeading
       \/ d[h].tag \in {"H1", "H2", "H3", "H4", "H5"}
    /\ isVisible(d, h)
    /\ includes(toLowerCase(trim(textContent(d, h))), fieldLower)

\* C23: Strategy 4 proposes a candidate only for a visible heading-like
\* element whose text contains the descriptor and which lies inside an element
\* carrying a framework question-container class, and the input it proposes
\* lies inside that container
C23_PatternOnlyInQuestionContainer ==
    [][ RunsFill
        => LET fieldLower == toLowerCase(Descriptor)
               proposed == OfStrategy(foundElements(dom, Descriptor), 4)
           IN  \A k \in 1..Len(proposed) :
                   \E h \in DOMAIN dom :
                       /\ isMatchingHeading(dom, h, fieldLower)
                       /\ \E c \in DOMAIN dom :
                             /\ c = h \/ IsDescendant(dom, h, c)
                             /\ isQuestionContainer(dom, c)
                             /\ IsDescendant(dom, proposed[k].element, c)
      ]_vars


\* what Strategies 1 to 4 have proposed when Strategy 5 is reached
ProposedBefore(d, fieldText) ==
    IF strategy1(d, fieldText).returned THEN strategy1(d, fieldText).found
    ELSE strategy2(d, textElements(d), toLowerCase(fieldText), strategy1(d, fieldText).found)
         \o strategy3(d, fieldText) \o strategy4(d, toLowerCase(fieldText))

\* the visible label-like texts and the visible inputs, in document order
VisibleLabelTexts(d) ==
    SelectSeq(Idx(d), LAMBDA el :
        /\ d[el].tag \in {"LABEL", "H1", "H2", "H3", "H4", "H5", "H6",
                          "P", "SPAN", "DIV", "LEGEND"}
        /\ isVisible(d, el)
        /\ trim(textContent(d, el)) # <<>>)

VisibleInputs(d) ==
    SelectSeq(Idx(d), LAMBDA i :
        d[i].tag \in {"INPUT", "TEXTAREA", "SELECT"} /\ isVisible(d, i))

\* the places, counted from 0, of the label texts that equal or contain the
\* descriptor
LabelPlaces(d, fieldLower) ==
    { n \in 0..(Len(VisibleLabelTexts(d)) - 1) :
        includes(toLowerCase(trim(textContent(d, VisibleLabelTexts(d)[n + 1]))),
                 fieldLower) }

\* C24: Strategy 5 runs only when Strategies 1 to 4 proposed no candidate,
\* so a positional candidate (score 60) is the sole candidate; its element is
\* the visible input at index N in document order, N being the index of the
\* first visible label-like text that equals or contains the descriptor, and
\* nothing is proposed when there is no such text or N is not less than the
\* number of visible inputs
C24_PositionalLastResort ==
    [][ RunsFill
        => LET fieldLower == toLowerCase(Descriptor)
               found == foundElements(dom, Descriptor)
               places == LabelPlaces(dom, fieldLower)
               inputs == VisibleInputs(dom)
           IN  /\ ProposedBefore(dom, Descriptor) # <<>>
                  => /\ OfStrategy(found, 5) = <<>>
                     /\ found = ProposedBefore(dom, Descriptor)
               /\ ProposedBefore(dom, Descriptor) = <<>>
                  => found =
                       IF places # {} /\ Least(places) < Len(inputs)
                       THEN << [element |-> inputs[Least(places) + 1],
                                method |-> "positional", score |-> 60,
                                strategy |-> 5] >>
                       ELSE <<>>
               /\ \A r \in ready' \ ready :
                    (r.res.kind = "object" /\ r.res.method = "positional")
                    => /\ Len(found) = 1
                       /\ r.res.score = 60
                       /\ places # {} /\ Least(places) < Len(inputs)
                       /\ r.res.node = inputs[Least(places) + 1]
      ]_vars

\* a fill has been resolved by position: the second text being the first to
\* contain the descriptor, the second visible input was filled
C24_Witness ==
    \E r \in Ran :
        /\ r.e.op = "fill_form"
        /\ r.res.kind = "object"
        /\ r.res.success
        /\ r.res.method = "positional"
        /\ r.res.score = 60
        /\ r.res.node = 6
        /\ Least(LabelPlaces(pagePositional, toLowerCase(jsValue(r.e.field)))) = 1
        /\ dom = [pagePositional EXCEPT ![6].value = r.e.value]


----------------------------------------------------------------------------
(* The locators the operations report, and fill_by_xpath on mapped fields   *)

MaxLocatorCalls == 2

sSend == <<"S","e","n","d">>

\* <form><label for="Email">Email</label><input type="text" id="Email">
\*       <button type="submit">Send</button></form>
pageSignup ==
    << Body, El("FORM", 1),
       [Text("LABEL", 2, sEmail) EXCEPT !.htmlFor = sEmail],
       [Input(2, sText) EXCEPT !.id = sEmail],
       [Text("BUTTON", 2, sSend) EXCEPT !.type = sSubmit] >>

LocatorPages == {pageSignup, pageFormRows, pageTwoSections}

MapForLocator ==
    Call(Evaluation(NextId, "map_form_fields", null, null), MaxLocatorCalls)

ClickForLocator ==
    \E sel \in {sSend, sButton} :
        Call(Evaluation(NextId, "click_element", sel, null), MaxLocatorCalls)

SubmitForLocator ==
    Call(Evaluation(NextId, "submit_form", sForm, null), MaxLocatorCalls)

DebugForLocator ==
    \E sel \in {sForm, sButton} :
        Call(Evaluation(NextId, "debug_element", sel, null), MaxLocatorCalls)

\* fill_by_xpath with the xpath of a field of the mapping the browser keeps
FillMappedField ==
    CallFillByXPath({ << <<app.mapped_form_fields[k].xpath, sEm>> >> :
                          k \in 1..Len(app.mapped_form_fields) },
                    MaxLocatorCalls)

InitLocator == InitWith(LocatorPages)

NextLocator ==
    \/ MapForLocator
    \/ ClickForLocator
    \/ SubmitForLocator
    \/ DebugForLocator
    \/ FillMappedField
    \/ FillByXPathStep
    \/ Evaluate
    \/ Deliver

SpecLocator == InitLocator /\ [][NextLocator]_vars

\* the elements from the outermost ancestor below the body down to n
RECURSIVE DownFromBody(_, _)
DownFromBody(d, n) ==
    IF n = 0 \/ d[n].tag = "BODY" THEN <<>>
    ELSE DownFromBody(d, d[n].parent) \o <<n>>

\* 1 plus the number of preceding element siblings with the same tag name
PositionAmongTag(d, e) ==
    1 + Cardinality({s \in 1..(e - 1) : d[s].parent = d[e].parent /\ d[s].tag = d[e].tag})

\* the lower-case tag name, followed by [N] only when N > 1
Segment(d, e) ==
    <<"/">> \o tagName(d[e].tag)
    \o (IF PositionAmongTag(d, e) > 1
        THEN <<"[">> \o numToChars(PositionAmongTag(d, e)) \o <<"]">>
        ELSE <<>>)

\* the locator of C26
Locator(d, n) ==
    IF d[n].id # <<>> THEN <<"/","/","*","[","@","i","d","=","\"">> \o d[n].id \o <<"\"","]">>
    ELSE Flatten([k \in 1..Len(DownFromBody(d, n)) |-> Segment(d, DownFromBody(d, n)[k])])

\* the operations that report the locator of the element they found
ReportsLocator == {"click_element", "submit_form", "debug_element"}

\* C26: in every operation that reports a locator, an element with an id gets
\* //*[@id="<id>"] and an element without an id gets a path with one segment
\* per element from the outermost ancestor below the body down to the
\* element, no segment for body or html, each segment the lower-case tag name
\* followed by [N] only when N > 1
C26_LocatorBelowBody ==
    \A r \in Ran :
        /\ (r.e.op \in ReportsLocator /\ r.res.kind = "object" /\ r.res.node > 0)
           => r.res.xpath = Locator(dom, r.res.node)
        /\ (r.e.op = "map_form_fields" /\ r.res.kind = "object")
           => \A k \in 1..Len(r.res.fields) :
                  r.res.fields[k].xpath = Locator(dom, r.res.fields[k].node)

\* C29: for every field that map_form_fields returned, fill_by_xpath with the
\* field's xpath, on the page as it was mapped, finds that same element, be
\* the xpath the one of an id or a positional path
C29_MappedXPathResolves ==
    \A r \in Ran :
        r.e.op = "fill_by_xpath"
        => \A k \in 1..Len(app.mapped_form_fields) :
               app.mapped_form_fields[k].xpath = r.e.field
               => /\ r.res.kind = "object"
                  /\ r.res.success
                  /\ r.res.node = app.mapped_form_fields[k].node


----------------------------------------------------------------------------
(* The chat window, the browser's command handler and the LLM integration:  *)
(* src/browser/chat_window.py, src/browser/browser.py 2938-3005,            *)
(* src/lib/llm_browser_integration.py                                      *)

MaxChatMessages == 2
MaxChunks == 2
\* /goto example.com
mGoto == <<"/","g","o","t","o"," ","e","x","a","m","p","l","e",".","c","o","m">>
\* /back
mBack == <<"/","b","a","c","k">>
\* /forward
mForward == <<"/","f","o","r","w","a","r","d">>
\* /reload
mReload == <<"/","r","e","l","o","a","d">>
\* /fillform Email=em
mFillform == <<"/","f","i","l","l","f","o","r","m"," ","E","m","a","i","l","=","e","m">>
\* /click Send
mClick == <<"/","c","l","i","c","k"," ","S","e","n","d">>
\* /type Email:em
mType == <<"/","t","y","p","e"," ","E","m","a","i","l",":","e","m">>
\* /type "Email" em
mTypeQuoted == <<"/","t","y","p","e"," ","\"","E","m","a","i","l","\""," ","e","m">>
\* /type Email em
mTypeWords == <<"/","t","y","p","e"," ","E","m","a","i","l"," ","e","m">>
\* /submit
mSubmit == <<"/","s","u","b","m","i","t">>
\* /debug form
mDebug == <<"/","d","e","b","u","g"," ","f","o","r","m">>
\* /select country:USA
mSelect == <<"/","s","e","l","e","c","t"," ","c","o","u","n","t","r","y",":","U","S","A">>
\* /select country
mSelectNoOption == <<"/","s","e","l","e","c","t"," ","c","o","u","n","t","r","y">>
\* /radio color:blue
mRadio == <<"/","r","a","d","i","o"," ","c","o","l","o","r",":","b","l","u","e">>
\* /Checkbox agree:Yes
mCheckbox == <<"/","C","h","e","c","k","b","o","x"," ","a","g","r","e","e",":","Y","e","s">>
\* /custom star:aria-label:3
mCustom == <<"/","c","u","s","t","o","m"," ","s","t","a","r",":","a","r","i","a","-","l","a","b","e","l",":","3">>
\* /help
mHelp == <<"/","h","e","l","p">>
\* /dance
mDance == <<"/","d","a","n","c","e">>
\* hello
mHello == <<"h","e","l","l","o">>
\* Please Fill the form
mFillTheForm == <<"P","l","e","a","s","e"," ","F","i","l","l"," ","t","h","e"," ","f","o","r","m">>

\* what the user sends
Messages ==
    {mGoto, mBack, mForward, mReload, mFillform,
     mClick, mType, mTypeQuoted, mTypeWords, mSubmit,
     mDebug, mSelect, mSelectNoOption, mRadio, mCheckbox,
     mCustom, mHelp, mDance, mHello, mFillTheForm}
\* {"Email": "em"}
cObject == <<"{","\"","E","m","a","i","l","\"",":"," ","\"","e","m","\"","}">>
\* {"Email":
cOpening == <<"{","\"","E","m","a","i","l","\"",":">>
\*  "em"}
cClosing == <<" ","\"","e","m","\"","}">>
\* Sure
cWords == <<"S","u","r","e">>
\* {Email}
cNoJson == <<"{","E","m","a","i","l","}">>

\* the chunks an LLM stream is made of
Chunks == {cObject, cOpening, cClosing, cWords, cNoJson}

form_fill_phrases ==
    {<<"f","i","l","l"," ","t","h","e"," ","f","o","r","m">>,
     <<"f","i","l","l"," ","t","h","i","s"," ","f","o","r","m">>,
     <<"f","i","l","l"," ","o","u","t"," ","t","h","e"," ","f","o","r","m">>,
     <<"f","i","l","l"," ","o","u","t"," ","t","h","i","s"," ","f","o","r","m">>,
     <<"c","o","m","p","l","e","t","e"," ","t","h","e"," ","f","o","r","m">>,
     <<"c","o","m","p","l","e","t","e"," ","t","h","i","s"," ","f","o","r","m">>,
     <<"a","u","t","o","f","i","l","l">>,
     <<"a","u","t","o"," ","f","i","l","l">>,
     <<"f","i","l","l"," ","w","i","t","h"," ","s","a","m","p","l","e"," ","d","a","t","a">>,
     <<"f","i","l","l"," ","w","i","t","h"," ","t","e","s","t"," ","d","a","t","a">>,
     <<"g","e","n","e","r","a","t","e"," ","f","o","r","m"," ","d","a","t","a">>}

\* str.split(sep, 1)
splitOnce(s, sep) ==
    IF \E i \in 1..Len(s) : s[i] = sep
    THEN << SubSeq(s, 1, Least({i \in 1..Len(s) : s[i] = sep}) - 1),
            SubSeq(s, Least({i \in 1..Len(s) : s[i] = sep}) + 1, Len(s)) >>
    ELSE <<s>>

\* the parameters of a browser command, None where a command has none
NoParams ==
    [url |-> null, data |-> <<>>, selector |-> null, text |-> null,
     value |-> null, attribute |-> null, check |-> TRUE]

\* browser_command.emit(command, params); <<>> is no emission
Emit(command, params) == << [command |-> command, params |-> params] >>

\* json.loads on an object whose members are strings without escapes,
\* commas or colons; any other text of Chunks and Messages is no JSON
isJsonString(t) ==
    /\ Len(t) >= 2
    /\ t[1] = "\"" /\ t[Len(t)] = "\""
    /\ \A i \in 2..(Len(t) - 1) : t[i] \notin {"\"", "\\"}

jsonMember(m) ==
    IF /\ Len(split(m, ":")) = 2
       /\ isJsonString(trim(split(m, ":")[1]))
       /\ isJsonString(trim(split(m, ":")[2]))
    THEN << << SubSeq(trim(split(m, ":")[1]), 2, Len(trim(split(m, ":")[1])) - 1),
               SubSeq(trim(split(m, ":")[2]), 2, Len(trim(split(m, ":")[2])) - 1) >> >>
    ELSE <<>>

jsonMembers(ms) ==
    [ok |-> \A k \in 1..Len(ms) : jsonMember(ms[k]) # <<>>,
     data |-> Flatten([k \in 1..Len(ms) |-> jsonMember(ms[k])])]

json_loads(s) ==
    IF Len(trim(s)) < 2 \/ Head(trim(s)) # "{" \/ trim(s)[Len(trim(s))] # "}"
    THEN [ok |-> FALSE, data |-> <<>>]
    ELSE IF trim(SubSeq(trim(s), 2, Len(trim(s)) - 1)) = <<>>
    THEN [ok |-> TRUE, data |-> <<>>]
    ELSE jsonMembers(split(SubSeq(trim(s), 2, Len(trim(s)) - 1), ","))

\* the field=value pairs of cmd_fill_form
pairOf(pair) ==
    IF Len(splitOnce(pair, "=")) = 2
    THEN << << trim(splitOnce(pair, "=")[1]), trim(splitOnce(pair, "=")[2]) >> >>
    ELSE <<>>

pairsOf(pairs) == Flatten([k \in 1..Len(pairs) |-> pairOf(pairs[k])])

formDataOf(args) ==
    IF json_loads(args).ok THEN json_loads(args).data ELSE pairsOf(split(args, ","))

cmd_fill_form(args) ==
    IF args = <<>> \/ formDataOf(args) = <<>> THEN <<>>
    ELSE Emit("fillform", [NoParams EXCEPT !.data = formDataOf(args)])

cmd_goto(args) ==
    IF args = <<>> THEN <<>> ELSE Emit("goto", [NoParams EXCEPT !.url = args])

cmd_click(args) ==
    IF args = <<>> THEN <<>> ELSE Emit("click", [NoParams EXCEPT !.selector = args])

\* re.match(r'"([^"]+)"\s+(.*)', args): the closing quote, 0 without a match
closingQuote(args) ==
    IF /\ Len(args) >= 4
       /\ args[1] = "\""
       /\ args[2] # "\""
       /\ \E j \in 3..(Len(args) - 1) : args[j] = "\""
    THEN LET j == Least({i \in 3..(Len(args) - 1) : args[i] = "\""})
         IN  IF args[j + 1] = " " THEN j ELSE 0
    ELSE 0

cmd_type(args) ==
    IF \E i \in 1..Len(args) : args[i] = ":"
    THEN Emit("type", [NoParams EXCEPT !.selector = trim(splitOnce(args, ":")[1]),
                                       !.text = trim(splitOnce(args, ":")[2])])
    ELSE IF \E i \in 1..Len(args) : args[i] = "\""
    THEN IF closingQuote(args) = 0 THEN <<>>
         ELSE Emit("type",
                   [NoParams EXCEPT
                        !.selector = SubSeq(args, 2, closingQuote(args) - 1),
                        !.text = trimStart(SubSeq(args, closingQuote(args) + 1, Len(args)))])
    ELSE IF Len(splitOnce(args, " ")) < 2 THEN <<>>
    ELSE Emit("type", [NoParams EXCEPT !.selector = splitOnce(args, " ")[1],
                                       !.text = splitOnce(args, " ")[2]])

cmd_select(args) ==
    IF args = <<>> \/ Len(splitOnce(args, ":")) < 2 THEN <<>>
    ELSE IF trim(splitOnce(args, ":")[1]) = <<>> \/ trim(splitOnce(args, ":")[2]) = <<>>
    THEN <<>>
    ELSE Emit("select", [NoParams EXCEPT !.selector = trim(splitOnce(args, ":")[1]),
                                         !.value = trim(splitOnce(args, ":")[2])])

cmd_radio(args) ==
    IF args = <<>> \/ trim(splitOnce(args, ":")[1]) = <<>> THEN <<>>
    ELSE Emit("radio",
              [NoParams EXCEPT !.selector = trim(splitOnce(args, ":")[1]),
                               !.value = IF Len(splitOnce(args, ":")) = 2
                                         THEN trim(splitOnce(args, ":")[2]) ELSE null])

cmd_checkbox(args) ==
    IF args = <<>> \/ trim(splitOnce(args, ":")[1]) = <<>> THEN <<>>
    ELSE Emit("checkbox",
              [NoParams EXCEPT !.selector = trim(splitOnce(args, ":")[1]),
                               !.check = IF Len(splitOnce(args, ":")) = 2
                                         THEN toLowerCase(trim(splitOnce(args, ":")[2]))
                                                  \in {sTrue, sYes, sOne, sOn}
                                         ELSE TRUE])

cmd_custom(args) ==
    IF args = <<>> \/ trim(split(args, ":")[1]) = <<>> THEN <<>>
    ELSE Emit("custom",
              [NoParams EXCEPT
                   !.selector = trim(split(args, ":")[1]),
                   !.attribute = IF Len(split(args, ":")) >= 3
                                 THEN trim(split(args, ":")[2]) ELSE null,
                   !.value = IF Len(split(args, ":")) >= 3 THEN trim(split(args, ":")[3])
                             ELSE IF Len(split(args, ":")) = 2
                             THEN trim(split(args, ":")[2]) ELSE null])

cmd_submit(args) ==
    Emit("submit", [NoParams EXCEPT !.selector = IF args = <<>> THEN sForm ELSE args])

cmd_debug(args) ==
    IF args = <<>> THEN <<>> ELSE Emit("debug", [NoParams EXCEPT !.selector = args])

\* the commands dictionary of ChatWindow.handle_browser_command
commands(command, args) ==
    CASE command = <<"g","o","t","o">> -> cmd_goto(args)
      [] command = <<"b","a","c","k">> -> Emit("back", NoParams)
      [] command = <<"f","o","r","w","a","r","d">> -> Emit("forward", NoParams)
      [] command = <<"r","e","l","o","a","d">> -> Emit("reload", NoParams)
      [] command = <<"f","i","l","l","f","o","r","m">> -> cmd_fill_form(args)
      [] command = <<"c","l","i","c","k">> -> cmd_click(args)
      [] command = <<"t","y","p","e">> -> cmd_type(args)
      [] command = sSubmit -> cmd_submit(args)
      [] command = <<"d","e","b","u","g">> -> cmd_debug(args)
      [] command = sSelect -> cmd_select(args)
      [] command = sRadio -> cmd_radio(args)
      [] command = sCheckbox -> cmd_checkbox(args)
      [] command = <<"c","u","s","t","o","m">> -> cmd_custom(args)
      [] OTHER -> <<>>

\* ChatWindow.handle_browser_command(command_text): what it emits
chat_command(command_text) ==
    commands(toLowerCase(splitOnce(trim(Tail(command_text)), " ")[1]),
             IF Len(splitOnce(trim(Tail(command_text)), " ")) = 2
             THEN splitOnce(trim(Tail(command_text)), " ")[2] ELSE <<>>)

\* what Browser.handle_browser_command starts for a command: a navigation of
\* the web view, an operation of the automator, or nothing
Navigations == {"goto", "back", "forward", "reload"}

BrowserStarts(command) ==
    CASE command = "goto" -> "setUrl"
      [] command \in {"back", "forward", "reload"} -> command
      [] command \in {"detect_form", "auto_fill"} -> "detect_form_fields"
      [] command \in {"map_fields", "auto_map"} -> "map_form_fields"
      [] command \in {"fillform", "type"} -> "fill_form"
      [] command = "click" -> "click_element"
      [] command = "submit" -> "submit_form"
      [] command = "debug" -> "debug_element"
      [] OTHER -> ""

\* Browser.handle_browser_command(command, params), a being what the caller
\* leaves in the browser and the LLM integration; by is 0 for the user and
\* the LLM thread for a response
handle_browser_command(a, command, params, by) ==
    /\ app' = [a EXCEPT !.commands =
                   Append(@, [command |-> command, params |-> params, by |-> by,
                              started |-> BrowserStarts(command)])]
    /\ CASE BrowserStarts(command) = "fill_form" ->
               BeginLoop("fill_form",
                         IF command = "fillform" THEN params.data
                         ELSE << <<params.selector, params.text>> >>)
         [] BrowserStarts(command) \in {"detect_form_fields", "map_form_fields"} ->
               Begin(Evaluation(NextId, BrowserStarts(command), null, null))
         [] BrowserStarts(command) \in {"click_element", "submit_form", "debug_element"} ->
               Begin(Evaluation(NextId, BrowserStarts(command), params.selector, null))
         [] OTHER ->
               UNCHANGED <<dom, pc, todo, queue, ready, submitted, trace, handled, calls>>

\* what the user has sent that took effect
Sent ==
    Cardinality({k \in 1..Len(app.commands) : app.commands[k].by = 0})
    + Cardinality({r \in 1..Len(app.requests) : app.requests[r].kind = "chat"})

\* BrowserLLMIntegration.handle_user_message
handle_user_message(message) ==
    IF \E phrase \in form_fill_phrases : includes(toLowerCase(message), phrase)
    THEN handle_browser_command(app, "auto_fill", NoParams, 0)
    ELSE /\ app' = [app EXCEPT !.requests = Append(@, LLMThread("chat"))]
         /\ UNCHANGED <<dom, pc, todo, queue, ready, submitted, trace, handled, calls>>

\* ChatWindow.send_message with a command: the handler of the command, and
\* the browser's handler of what it emits
SendCommand ==
    /\ pc = "idle"
    /\ Sent < MaxChatMessages
    /\ \E message \in Messages :
         /\ Head(trim(message)) = "/"
         /\ IF chat_command(trim(message)) = <<>> THEN UNCHANGED vars
            ELSE handle_browser_command(app, chat_command(trim(message))[1].command,
                                        chat_command(trim(message))[1].params, 0)

\* ChatWindow.send_message with any other text: message_sent, which
\* Browser.handle_chat_message passes to the LLM integration
SendChat ==
    /\ pc = "idle"
    /\ Sent < MaxChatMessages
    /\ \E message \in Messages :
         /\ Head(trim(message)) # "/"
         /\ handle_user_message(trim(message))

\* BrowserLLMIntegration.handle_llm_response(response) for one chunk of the
\* stream of thread r
handle_llm_response(r, response) ==
    IF /\ Head(trim(response)) = "{"
       /\ trim(response)[Len(trim(response))] = "}"
       /\ json_loads(trim(response)).ok
       /\ app.auto_fill_requested
    THEN handle_browser_command(
             [app EXCEPT !.requests[r].chunks = @ + 1, !.auto_fill_requested = FALSE],
             "fillform", [NoParams EXCEPT !.data = json_loads(trim(response)).data], r)
    ELSE /\ app' = [app EXCEPT !.requests[r].chunks = @ + 1]
         /\ UNCHANGED <<dom, pc, todo, queue, ready, submitted, trace, handled, calls>>

\* LLMWorker.process_message emits response_ready for the next chunk
LLMChunk ==
    /\ pc = "idle"
    /\ \E r \in 1..Len(app.requests), response \in Chunks :
         /\ ~ app.requests[r].done
         /\ app.requests[r].chunks < MaxChunks
         /\ handle_llm_response(r, response)

\* the stream of a thread ends
LLMDone ==
    /\ \E r \in 1..Len(app.requests) :
         /\ ~ app.requests[r].done
         /\ app' = [app EXCEPT !.requests[r].done = TRUE]
    /\ UNCHANGED <<dom, pc, todo, queue, ready, submitted, trace, handled, calls>>

InitChat == InitWith({pageSignup})

NextChat ==
    \/ SendCommand
    \/ SendChat
    \/ LLMChunk
    \/ LLMDone
    \/ FillFormStep
    \/ Evaluate
    \/ Deliver

SpecChat == InitChat /\ [][NextChat]_vars

\* the commands the chat window's handlers emit, and for each the navigation
\* or the operation of C27
EmittedCommands ==
    {"goto", "back", "forward", "reload", "fillform", "click", "type", "submit",
     "debug", "select", "radio", "checkbox", "custom"}

MatchingOperation(command) ==
    CASE command = "fillform" -> "fill_form"
      [] command = "type" -> "fill_form"
      [] command = "click" -> "click_element"
      [] command = "submit" -> "submit_form"
      [] command = "debug" -> "debug_element"
      [] command = "select" -> "select_option"
      [] command = "radio" -> "check_radio"
      [] command = "checkbox" -> "check_checkbox"
      [] command = "custom" -> "click_custom_element"

\* C27: every browser command that the chat window's handlers emit is handled
\* by Browser.handle_browser_command, which starts the matching navigation
\* or automator operation; no emitted command is dropped without an
\* operation being started
C27_EveryCommandStartsOperation ==
    [][ \A k \in (Len(app.commands) + 1)..Len(app'.commands) :
            (app'.commands[k].by = 0 /\ app'.commands[k].command \in EmittedCommands)
            => IF app'.commands[k].command \in Navigations
               THEN app'.commands[k].started \in {"setUrl", "back", "forward", "reload"}
               ELSE /\ Len(calls') = Len(calls) + 1
                    /\ calls'[Len(calls')].op = MatchingOperation(app'.commands[k].command)
      ]_vars

\* C28: a fillform command of the LLM integration is issued only for a
\* chunk of the response to a sample-data prompt, at most once for a prompt,
\* and never for a chunk of the response to an ordinary chat message
C28_FillformOnlyForSamplePrompt ==
    \A k \in 1..Len(app.commands) :
        (app.commands[k].command = "fillform" /\ app.commands[k].by > 0)
        => /\ app.requests[app.commands[k].by].kind = "sample"
           /\ \A j \in 1..Len(app.commands) :
                  (app.commands[j].command = "fillform"
                   /\ app.commands[j].by = app.commands[k].by) => j = k

----------------------------------------------------------------------------
(* Every operation of the automator, one call at a time                    *)

MaxCalls == 1

\* <p>Name</p>: a page without a field
pageNoFields == << Body, Text("P", 1, sName) >>

Pages == {pageCountry, pageSignup, pageNoFields}

\* what the callers pass as descriptor or selector, and as value
Selectors == {sHashCountry, sCountry, sEmail, sQuote, sBackslash}
Values == {sUSA, sQuote}

CallDetectFormFields ==
    Call(Evaluation(NextId, "detect_form_fields", null, null), MaxCalls)

CallMapFormFields ==
    Call(Evaluation(NextId, "map_form_fields", null, null), MaxCalls)

CallCheckbox ==
    \E sel \in Selectors, check \in BOOLEAN :
        Call([Evaluation(NextId, "check_checkbox", sel, null) EXCEPT !.check = check],
             MaxCalls)

\* click_custom_element(selector, attribute=None, value=None)
CallClickCustomElement ==
    \E sel \in Selectors, a \in {null, sAriaLabel}, v \in {null} \cup Values :
        Call([Evaluation(NextId, "click_custom_element", sel, v) EXCEPT !.attribute = a],
             MaxCalls)

CallClickElement ==
    \E sel \in Selectors : Call(Evaluation(NextId, "click_element", sel, null), MaxCalls)

\* submit_form(selector="form")
CallSubmitForm ==
    \E sel \in {sForm} \cup Selectors :
        Call(Evaluation(NextId, "submit_form", sel, null), MaxCalls)

CallDebugElement ==
    \E sel \in Selectors : Call(Evaluation(NextId, "debug_element", sel, null), MaxCalls)

OneEntry == { << <<sel, v>> >> : sel \in Selectors, v \in Values }

OneXPath == { << <<x, v>> >> : x \in {xpathCountry, xpathEm, sQuote}, v \in Values }

Init == InitWith(Pages)

Next ==
    \/ CallDetectFormFields
    \/ CallMapFormFields
    \/ CallFillForm(OneEntry, MaxCalls)
    \/ CallFillByXPath(OneXPath, MaxCalls)
    \/ CallSelectOption(Selectors, Values, MaxCalls)
    \/ CallCheckRadio(Selectors, Values, MaxCalls)
    \/ CallCheckbox
    \/ CallClickCustomElement
    \/ CallClickElement
    \/ CallSubmitForm
    \/ CallDebugElement
    \/ FillFormStep
    \/ FillByXPathStep
    \/ Evaluate
    \/ EvaluateNoValue
    \/ Deliver

Spec == Init /\ [][Next]_vars

Operations ==
    {"detect_form_fields", "map_form_fields", "fill_form", "fill_by_xpath",
     "select_option", "check_radio", "check_checkbox", "click_custom_element",
     "click_element", "submit_form", "debug_element"}

\* C4: whatever the operation, a callback that is delivered None reports a
\* failure to the caller and does not raise
C4_NullPayloadReportsFailure ==
    \A h \in 1..Len(handled) :
        (handled[h].op \in Operations /\ handled[h].res.kind = "null")
        => (~ handled[h].raised /\ handled[h].reported = "failure")

\* C5: whatever strings the caller passes, the script that is run evaluates
\* to an object with a success (or found) flag, and the handler that gets
\* the object finishes without raising, follow-up call included
C5_AlwaysStructuredResult ==
    [][ \A r \in ready' \ ready :
            (queue # <<>> /\ r.res = Outcome(Head(queue), dom).res)
            => (r.res.kind # "null" /\ ~ Handle(r.op, r.res).raised) ]_vars

====
